---- MODULE Spec2Model ----
(***************************************************************************)
(* Aisle3 backend (src-tauri): the rate limiter (rate_limiter.rs), the     *)
(* OAuth token authority (gmail_auth.rs), the secure token storage         *)
(* (secure_storage.rs) and the Tauri commands that tie them together       *)
(* (main.rs).                                                              *)
(*                                                                         *)
(* Several specifications are defined over one set of variables:           *)
(*   SpecRL     : threads calling RateLimiter::check_rate_limit while the  *)
(*                monotonic clock advances;                                *)
(*   Spec       : asynchronous Tauri commands running as concurrent tasks; *)
(*   SpecStore  : one client calling SecureStorage;                        *)
(*   SpecParse  : calls of parse_callback_url;                             *)
(*   SpecLife   : login, refresh, logout and restart, command by command;  *)
(*   SpecLock   : the commands as lock, await and synchronous steps        *)
(*                (SpecLockFair: under a fair scheduler);                  *)
(*   SpecReset  : one caller of check_rate_limit and the resets;           *)
(*   SpecLogout : Spec with logout_gmail called while commands run.        *)
(***************************************************************************)
EXTENDS Integers, Sequences, FiniteSets, TLC

\* ---------------------------------------------------------------- bounds
\* Number of concurrently running threads / command tasks.
NumTasks == 2
\* Latest instant (in seconds since the limiter was created) the clock reaches.
MaxTime == 61
\* Rejected check_rate_limit calls counted per operation (the count saturates).
MaxRejected == 1

Tasks == 1..NumTasks

\* ---------------------------------------------------------------- values
\* Option<T> is a sequence of length at most one.
None == <<>>
Some(x) == <<x>>
IsSome(o) == Len(o) = 1
Unwrap(o) == o[1]

\* Result<T, String>: val is <<v>> on Ok, err is the message (a tuple) on Err.
Ok(v) == [ok |-> TRUE, val |-> <<v>>, err |-> <<>>]
Err(e) == [ok |-> FALSE, val |-> <<>>, err |-> e]
NoResult == [ok |-> FALSE, val |-> <<>>, err |-> <<"pending">>]

\* The unit value ().
Unit == "()"

\* ---------------------------------------------------------------- state
VARIABLES
    limits,     \* RateLimiter.limits: HashMap<String, RateLimit>
    rl_mutex,   \* holder of the Mutex around limits: None or Some(task)
    now,        \* Instant::now(), in seconds
    pc,         \* per task: position in the running call
    op,         \* per task: the operation name / command being run
    ret,        \* per task: the Result returned by its last call
    rl_now,     \* per task: the local `now` of RateLimit::is_allowed
    admitted,   \* history: per operation, the instants of admitted calls
    rejected,   \* history: per operation, the number of rejected calls
    auth_tokens, \* AppState.auth_tokens: Mutex<Option<AuthTokens>>
    keyring,    \* the keyring entry (SERVICE_NAME, TOKEN_KEY): None or Some(json)
    issued,     \* the provider: number of access tokens it has issued
    tokens,     \* per task: the local `tokens` of refresh_tokens_if_needed
    new_tokens, \* per task: the local `new_tokens` of refresh_tokens_if_needed
    cred,       \* per task: the Result of refresh_tokens_if_needed
    trace,      \* history: per task, the calls made by the running command
    token_file, \* the legacy token file: None or Some(json)
    ss_log,     \* history: the latest calls made (on SecureStorage, of commands)
    gmail_auth, \* AppState.gmail_auth: Mutex<Option<GmailAuth>>
    auth_tokens_mutex, \* holder of the Mutex around auth_tokens: None or Some(task)
    gmail_auth_mutex   \* holder of the Mutex around gmail_auth: None or Some(task)

rl_vars == <<limits, rl_mutex, now, rl_now, admitted, rejected>>
task_vars == <<pc, op, ret, tokens, new_tokens, cred, trace>>
app_vars == <<gmail_auth, auth_tokens_mutex, gmail_auth_mutex>>
store_vars == <<auth_tokens, keyring, issued, token_file, ss_log, app_vars>>
vars == <<rl_vars, task_vars, store_vars>>

\* ------------------------------------------------------- rate_limiter.rs
\* The operation names the commands of main.rs use, and one unrecognized name.
OpNames ==
    {"get_emails", "get_email_content", "send_reply", "mark_email_as_read",
     "mark_email_as_unread", "get_inbox_stats",
     "check_for_new_emails_since_last_check", "unknown_operation"}

\* RateLimit::new
RateLimit_new(max_requests, window_duration) ==
    [requests |-> <<>>, max_requests |-> max_requests,
     window_duration |-> window_duration]

\* The closure of or_insert_with in check_rate_limit: the policy of a name.
PolicyDefaultOnly(operation) == RateLimit_new(10, 60)
Policy(operation) ==
    CASE operation = "get_emails" -> RateLimit_new(10, 60)
      [] operation = "get_email_content" -> RateLimit_new(30, 60)
      [] operation = "send_reply" -> RateLimit_new(10, 60)
      [] operation = "mark_email_as_read" -> RateLimit_new(20, 60)
      [] operation = "mark_email_as_unread" -> RateLimit_new(20, 60)
      [] operation = "get_inbox_stats" -> RateLimit_new(20, 60)
      [] operation = "check_for_new_emails_since_last_check" -> RateLimit_new(30, 60)
      [] OTHER -> RateLimit_new(10, 60)

\* HashMap helpers.
EmptyMap == [k \in {} |-> None]
MapInsert(m, k, v) == [x \in DOMAIN m \cup {k} |-> IF x = k THEN v ELSE m[x]]
MapRemove(m, k) == [x \in DOMAIN m \ {k} |-> m[x]]

\* The key under which check_rate_limit looks a bucket up.
BucketKeyShared(operation) == "get_emails"
BucketKey(operation) == operation

\* limits.entry(operation.to_string()).or_insert_with(...)
entry_or_insert(lims, operation) ==
    IF BucketKey(operation) \in DOMAIN lims
    THEN lims
    ELSE MapInsert(lims, BucketKey(operation), Policy(operation))

\* self.requests.retain(|&req_time| now.duration_since(req_time) <= self.window_duration)
RetainAll(limit, t) == limit
RetainOneSecondMore(limit, t) ==
    [limit EXCEPT !.requests =
        SelectSeq(limit.requests,
                  LAMBDA req_time : t - req_time <= limit.window_duration + 1)]
Retain(limit, t) ==
    [limit EXCEPT !.requests =
        SelectSeq(limit.requests, LAMBDA req_time : t - req_time <= limit.window_duration)]

\* self.requests.len() < self.max_requests as usize
UnderLimitOffByOne(limit) == Len(limit.requests) <= limit.max_requests
UnderLimit(limit) == Len(limit.requests) < limit.max_requests

\* self.requests.push(now)
Push(limit, t) == [limit EXCEPT !.requests = Append(limit.requests, t)]

\* RateLimit::is_allowed, as one step: the bucket afterwards and the answer.
is_allowed_always_recording(limit, t) ==
    LET kept == Retain(limit, t) IN
    [limit |-> Push(kept, t), allowed |-> UnderLimit(kept)]
is_allowed(limit, t) ==
    LET kept == Retain(limit, t) IN
    IF UnderLimit(kept)
    THEN [limit |-> Push(kept, t), allowed |-> TRUE]
    ELSE [limit |-> kept, allowed |-> FALSE]

\* The Err of check_rate_limit: "Rate limit exceeded for '{}'. Max {} requests
\* per {} seconds" with the operation, limit.max_requests and the window's seconds.
RateLimitExceeded(operation, limit) ==
    Err(<<"Rate limit exceeded for", operation, limit.max_requests,
          limit.window_duration>>)

\* ------------------------------------------------- SpecRL: the rate limiter
\* Steps of the clock between two observations: exactly one window, and just
\* more than one window.
TickSteps == {60, 61}

\* A run of SpecRL uses one operation name while the clock advances, or, in
\* one burst, the two names of test_different_operations_have_separate_limits.
PairedOps == {"get_emails", "send_reply"}

OpsInUse == DOMAIN limits \cup {op[t] : t \in {u \in Tasks : pc[u] # "idle"}}

MayCheck(operation) ==
    \/ OpsInUse \subseteq {operation}
    \/ now = 0 /\ OpsInUse \cup {operation} \subseteq PairedOps

MayTick == Cardinality(OpsInUse) <= 1

Saturate(n) == IF n < MaxRejected THEN n + 1 ELSE MaxRejected

InitRL ==
    /\ limits = EmptyMap
    /\ rl_mutex = None
    /\ now = 0
    /\ pc = [t \in Tasks |-> "idle"]
    /\ op = [t \in Tasks |-> ""]
    /\ ret = [t \in Tasks |-> NoResult]
    /\ rl_now = [t \in Tasks |-> 0]
    /\ admitted = [o \in OpNames |-> <<>>]
    /\ rejected = [o \in OpNames |-> 0]
    /\ auth_tokens = None
    /\ keyring = None
    /\ issued = 0
    /\ token_file = None
    /\ ss_log = <<>>
    /\ gmail_auth = None
    /\ auth_tokens_mutex = None
    /\ gmail_auth_mutex = None
    /\ tokens = [t \in Tasks |-> None]
    /\ new_tokens = [t \in Tasks |-> None]
    /\ cred = [t \in Tasks |-> NoResult]
    /\ trace = [t \in Tasks |-> <<>>]

\* The monotonic clock advances.
Tick ==
    /\ MayTick
    /\ \E d \in TickSteps : now + d <= MaxTime /\ now' = now + d
    /\ UNCHANGED <<limits, rl_mutex, rl_now, admitted, rejected>>
    /\ UNCHANGED <<task_vars, store_vars>>

\* self.limits.lock().unwrap(): the mutex is free, or this is not a mutex.
MutexFreeBroken == TRUE
MutexFree == rl_mutex = None

\* check_rate_limit, line 27: a thread calls check_rate_limit(operation) and
\* takes the lock.
rl_lock(t, operation) ==
    /\ pc[t] = "idle"
    /\ MayCheck(operation)
    /\ MutexFree
    /\ rl_mutex' = Some(t)
    /\ pc' = [pc EXCEPT ![t] = "rl_locked"]
    /\ op' = [op EXCEPT ![t] = operation]
    /\ ret' = [ret EXCEPT ![t] = NoResult]
    /\ UNCHANGED <<limits, now, rl_now, admitted, rejected>>
    /\ UNCHANGED <<tokens, new_tokens, cred, trace, store_vars>>

\* check_rate_limit lines 30-43 and is_allowed lines 82-86: the bucket is
\* looked up or created, `now` is read and the old requests are dropped.
rl_retain(t) ==
    /\ pc[t] = "rl_locked"
    /\ LET lims == entry_or_insert(limits, op[t])
           k == BucketKey(op[t])
       IN limits' = [lims EXCEPT ![k] = Retain(lims[k], now)]
    /\ rl_now' = [rl_now EXCEPT ![t] = now]
    /\ pc' = [pc EXCEPT ![t] = "rl_retained"]
    /\ UNCHANGED <<rl_mutex, now, op, ret, admitted, rejected>>
    /\ UNCHANGED <<tokens, new_tokens, cred, trace, store_vars>>

\* is_allowed lines 89-94 and check_rate_limit lines 45-54: the request is
\* recorded if the bucket is under its limit, the result is returned and the
\* guard is dropped.
rl_push(t) ==
    /\ pc[t] = "rl_retained"
    /\ LET k == BucketKey(op[t])
           limit == limits[k]
           allowed == UnderLimit(limit)
       IN /\ limits' = IF allowed THEN [limits EXCEPT ![k] = Push(limit, rl_now[t])]
                       ELSE limits
          /\ ret' = [ret EXCEPT ![t] =
                        IF allowed THEN Ok(Unit) ELSE RateLimitExceeded(op[t], limit)]
          /\ admitted' = IF allowed
                         THEN [admitted EXCEPT ![op[t]] = Append(@, rl_now[t])]
                         ELSE admitted
          /\ rejected' = IF allowed THEN rejected
                         ELSE [rejected EXCEPT ![op[t]] = Saturate(@)]
    /\ rl_mutex' = IF rl_mutex = Some(t) THEN None ELSE rl_mutex
    /\ pc' = [pc EXCEPT ![t] = "idle"]
    /\ op' = [op EXCEPT ![t] = ""]
    /\ rl_now' = [rl_now EXCEPT ![t] = 0]
    /\ UNCHANGED <<now, tokens, new_tokens, cred, trace, store_vars>>

NextRL ==
    \/ Tick
    \/ \E t \in Tasks, operation \in OpNames : rl_lock(t, operation)
    \/ \E t \in Tasks : rl_retain(t)
    \/ \E t \in Tasks : rl_push(t)

SpecRL == InitRL /\ [][NextRL]_vars

\* Number of instants of `instants` inside the closed trailing window that
\* ends at `t_end`.
InWindow(instants, t_end, window) ==
    Cardinality({i \in 1..Len(instants) :
                    instants[i] <= t_end /\ t_end - instants[i] <= window})

\* The step in which task t's check_rate_limit returns.
CheckReturns(t) == pc[t] = "rl_retained" /\ pc'[t] = "idle"

\* C6: starting from an empty bucket, with all calls of an operation inside one
\* window, each of the first max calls to check_rate_limit succeeds and the
\* (max+1)th call fails with the rate-limit-exceeded error of that operation.
C6_FirstMaxAdmittedNextRejected ==
    [][\A t \in Tasks :
        LET o == op[t]
            max == Policy(o).max_requests
            window == Policy(o).window_duration
            n == Len(admitted[o]) + rejected[o] + 1
        IN (/\ CheckReturns(t)
            /\ rejected[o] < MaxRejected
            /\ admitted[o] # <<>> => rl_now[t] - admitted[o][1] <= window)
           => /\ n <= max => ret'[t] = Ok(Unit)
              /\ n >= max + 1 => ret'[t] = RateLimitExceeded(o, Policy(o))]_vars

C6_Witness ==
    \E t \in Tasks, o \in OpNames :
        /\ Policy(o).max_requests = 30
        /\ Len(admitted[o]) = 30
        /\ InWindow(admitted[o], now, 60) = 30
        /\ rejected[o] = 1
        /\ ret[t] = RateLimitExceeded(o, Policy(o))

\* C7: once a bucket has been exhausted (max requests admitted, a further check
\* rejected), a check issued more than window_duration after every admitted
\* request succeeds again; no reset is involved (SpecRL has none).
C7_AdmittedAgainAfterWindow ==
    [][\A t \in Tasks :
        LET o == op[t]
            max == Policy(o).max_requests
            window == Policy(o).window_duration
        IN (/\ CheckReturns(t)
            /\ Len(admitted[o]) >= max
            /\ rejected[o] >= 1
            /\ \A i \in 1..Len(admitted[o]) : rl_now[t] - admitted[o][i] > window)
           => /\ ret'[t] = Ok(Unit)
              /\ limits'[o].requests = <<rl_now[t]>>]_vars

C7_Witness ==
    \E t \in Tasks, o \in OpNames :
        /\ Len(admitted[o]) = Policy(o).max_requests + 1
        /\ rejected[o] = 1
        /\ admitted[o][1] = 0
        /\ admitted[o][Len(admitted[o])] = 61
        /\ o \in DOMAIN limits /\ limits[o].requests = <<61>>
        /\ ret[t] = Ok(Unit)

\* C8: under every interleaving of concurrent check_rate_limit calls there are
\* no duplicate admissions and no lost updates: for every operation the number
\* of calls admitted inside any trailing window of window_duration is at most
\* max_requests, and the bucket holds every admitted instant except a prefix
\* of instants that are older than the window.
\* (The trailing windows that end at an admitted instant or now are the ones
\* that can hold the most admitted calls.)
C8_NoLostUpdateNoDuplicateAdmission ==
    \A o \in OpNames :
        LET max == Policy(o).max_requests
            window == Policy(o).window_duration
            log == admitted[o]
        IN /\ \A j \in 1..Len(log) : InWindow(log, log[j], window) <= max
           /\ InWindow(log, now, window) <= max
           /\ IF o \in DOMAIN limits
              THEN \E k \in 0..Len(log) :
                      /\ limits[o].requests = SubSeq(log, k + 1, Len(log))
                      /\ \A i \in 1..k : now - log[i] > window
              ELSE log = <<>>

C8_Witness ==
    \E t1, t2 \in Tasks, o \in OpNames :
        /\ t1 # t2
        /\ o \in DOMAIN limits
        /\ Len(limits[o].requests) = Policy(o).max_requests
        /\ \A i \in 1..Len(limits[o].requests) : limits[o].requests[i] = now
        /\ ret[t1] = Ok(Unit)
        /\ pc[t2] = "rl_retained" /\ op[t2] = o /\ rl_mutex = Some(t2)

\* C9: distinct operation names have independent budgets: a step of a check
\* on operation A neither creates, removes nor changes the bucket of any other
\* operation B, and the answer to a check on B is decided by B's own admitted
\* calls alone.
C9_IndependentBudgets ==
    [][\A t \in Tasks :
        (pc[t] \in {"rl_locked", "rl_retained"} /\ pc'[t] # pc[t])
        => /\ \A b \in OpNames \ {op[t]} :
                /\ (b \in DOMAIN limits') = (b \in DOMAIN limits)
                /\ b \in DOMAIN limits => limits'[b] = limits[b]
                /\ admitted'[b] = admitted[b]
           /\ CheckReturns(t) =>
                (ret'[t].ok <=>
                    InWindow(admitted[op[t]], rl_now[t], Policy(op[t]).window_duration)
                        < Policy(op[t]).max_requests)]_vars

C9_Witness ==
    \E t1, t2 \in Tasks :
        /\ Len(admitted["get_emails"]) = 10
        /\ rejected["get_emails"] = 1
        /\ ret[t1] = RateLimitExceeded("get_emails", Policy("get_emails"))
        /\ admitted["send_reply"] = <<0>>
        /\ ret[t2] = Ok(Unit)

\* C35: immediately after any check on an operation, admitted or rejected,
\* that operation's bucket contains no instant older than window_duration
\* relative to the time of the check, and at most max_requests instants.
C35_BucketPrunedAndBounded ==
    [][\A t \in Tasks :
        CheckReturns(t)
        => /\ op[t] \in DOMAIN limits'
           /\ LET limit == limits'[op[t]]
              IN /\ \A i \in 1..Len(limit.requests) :
                        rl_now[t] - limit.requests[i] <= limit.window_duration
                 /\ Len(limit.requests) <= limit.max_requests]_vars

\* A check at instant 61 has returned: the ten instants recorded at 0 are gone
\* from the bucket, which holds the instant of this check alone.
C35_Witness ==
    \E t \in Tasks :
        /\ Len(admitted["get_emails"]) = 11
        /\ admitted["get_emails"][10] = 0
        /\ pc[t] = "idle" /\ ret[t] = Ok(Unit)
        /\ limits["get_emails"].requests = <<61>>
        /\ now = 61

\* The policy table of the specification: requests per window of 60 seconds.
StatedMax(operation) ==
    CASE operation = "get_emails" -> 10
      [] operation = "get_email_content" -> 30
      [] operation = "send_reply" -> 10
      [] operation = "mark_email_as_read" -> 20
      [] operation = "mark_email_as_unread" -> 20
      [] operation = "get_inbox_stats" -> 20
      [] operation = "check_for_new_emails_since_last_check" -> 30
      [] OTHER -> 10

\* The operations that have been checked: a call was admitted or rejected, or
\* a running check has passed the lookup of its bucket.
Checked ==
    {o \in OpNames : admitted[o] # <<>> \/ rejected[o] > 0}
    \cup {op[t] : t \in {u \in Tasks : pc[u] = "rl_retained"}}

\* C32: a bucket exists exactly for the operation names that have been checked
\* (it is created by the first check), it carries the static policy of its
\* name, and a rejection reports that name, that max and that window; the
\* first 10 checks of get_emails in one window succeed and the 11th fails
\* naming get_emails, max 10, window 60 seconds.
C32_LazyBucketStaticPolicy ==
    /\ DOMAIN limits = Checked
    /\ \A o \in DOMAIN limits :
        /\ limits[o].max_requests = StatedMax(o)
        /\ limits[o].window_duration = 60
    /\ \A t \in Tasks : \A o \in OpNames :
        (pc[t] = "idle" /\ ~ret[t].ok /\ ret[t] # NoResult /\ ret[t].err[2] = o)
        => ret[t].err = <<"Rate limit exceeded for", o, StatedMax(o), 60>>
    /\ \A t \in Tasks :
        (pc[t] = "idle" /\ ret[t] # NoResult /\ now = 0)
        => /\ (Len(admitted["get_emails"]) < 10 => rejected["get_emails"] = 0)
           /\ (rejected["get_emails"] > 0 => Len(admitted["get_emails"]) = 10)

\* Ten checks of get_emails were admitted at one instant and the 11th was
\* rejected with the message naming get_emails, 10 and 60; the other names
\* have no bucket.
C32_Witness ==
    \E t \in Tasks :
        /\ Len(admitted["get_emails"]) = 10
        /\ \A i \in 1..10 : admitted["get_emails"][i] = 0
        /\ rejected["get_emails"] = 1
        /\ ret[t].err = <<"Rate limit exceeded for", "get_emails", 10, 60>>
        /\ DOMAIN limits = {"get_emails"}
        /\ pc = [u \in Tasks |-> "idle"]
TypeOKRL ==
    /\ rl_mutex \in {None} \cup {Some(t) : t \in Tasks}
    /\ now \in 0..MaxTime
    /\ DOMAIN limits \subseteq OpNames
    /\ \A t \in Tasks : pc[t] \in {"idle", "rl_locked", "rl_retained"}

\* ------------------------------------------------------------ gmail_auth.rs
\* struct AuthTokens
AuthTokens(access_token, refresh_token, expires_in) ==
    [access_token |-> access_token, refresh_token |-> refresh_token,
     expires_in |-> expires_in]

\* The access tokens the provider issues, in the order it issues them.
ProviderTokens == <<"A1", "A2", "A3", "A4">>
IssuedToken(n) == IF n <= Len(ProviderTokens) THEN ProviderTokens[n] ELSE "A5"

\* A token response of the provider to a refresh request: the access token is
\* the next one it issues; a new refresh token and expires_in may be absent.
RefreshResponses ==
    {[access_token |-> IssuedToken(issued + 1), refresh_token |-> r, expires_in |-> e] :
        r \in {None, Some("R2")}, e \in {Some(3600)}}

\* token_result.refresh_token().map(..).or_else(|| Some(refresh_token.to_string()))
NewRefreshTokenDropped(response, refresh_token) == response.refresh_token
NewRefreshTokenIgnored(response, refresh_token) == Some(refresh_token)
NewRefreshToken(response, refresh_token) ==
    IF IsSome(response.refresh_token)
    THEN response.refresh_token
    ELSE Some(refresh_token)

\* GmailAuth::refresh_access_token on a successful token response.
refresh_access_token(response, refresh_token) ==
    AuthTokens(response.access_token,
               NewRefreshToken(response, refresh_token),
               response.expires_in)

\* A callback URL as Url::parse sees it: whether it parses, and its query as
\* the sequence of decoded <<key, value>> pairs of query_pairs().
Url(valid, query) == [valid |-> valid, query |-> query]

\* parsed_url.query_pairs().into_owned().collect::<HashMap<_, _>>(): a later
\* pair replaces an earlier one with the same key.
RECURSIVE collect(_)
collect(pairs) ==
    IF pairs = <<>> THEN [k \in {} |-> ""]
    ELSE LET init == collect(SubSeq(pairs, 1, Len(pairs) - 1))
             last == pairs[Len(pairs)]
         IN [k \in DOMAIN init \cup {last[1]} |->
                IF k = last[1] THEN last[2] ELSE init[k]]

\* params.get(key)
params_get(params, key) == IF key \in DOMAIN params THEN Some(params[key]) ELSE None

\* if let Some(error) = params.get("error") (line 112)
ErrorParamUnlessCode(params) ==
    IF "code" \in DOMAIN params THEN None ELSE params_get(params, "error")
ErrorParam(params) == params_get(params, "error")

\* let state = params.get("state").cloned() (line 121)
StateParamDropped(params) == None
StateParam(params) == params_get(params, "state")

\* parse_callback_url
parse_callback_url(url) ==
    IF ~url.valid THEN Err(<<"invalid URL">>)
    ELSE LET params == collect(url.query)
         IN IF ErrorParam(params) # None
            THEN Err(<<"OAuth error", Unwrap(ErrorParam(params))>>)
            ELSE IF params_get(params, "code") = None
            THEN Err(<<"No authorization code found">>)
            ELSE Ok(<<Unwrap(params_get(params, "code")), StateParam(params)>>)

\* -------------------------------------------------------- secure_storage.rs
\* serde_json::to_string(tokens): a JSON object, a function from its keys to
\* JSON values <<"str", s>>, <<"num", n>> and <<"null">>.
JStr(x) == <<"str", x>>
JNum(n) == <<"num", n>>
JNull == <<"null">>
to_json_without_expiry(t) ==
    [access_token |-> JStr(t.access_token),
     refresh_token |-> IF IsSome(t.refresh_token) THEN JStr(Unwrap(t.refresh_token)) ELSE JNull,
     expires_in |-> JNull]
to_json(t) ==
    [access_token |-> JStr(t.access_token),
     refresh_token |-> IF IsSome(t.refresh_token) THEN JStr(Unwrap(t.refresh_token)) ELSE JNull,
     expires_in |-> IF IsSome(t.expires_in) THEN JNum(Unwrap(t.expires_in)) ELSE JNull]

\* An Option field of AuthTokens read by serde: absent and null are None.
OptionField(json, key, tag) ==
    IF key \notin DOMAIN json \/ json[key] = JNull THEN Ok(None)
    ELSE IF json[key][1] = tag THEN Ok(Some(json[key][2]))
    ELSE Err(<<"invalid type", key>>)

\* serde_json::from_str::<AuthTokens>(&json)
from_json(json) ==
    IF "access_token" \notin DOMAIN json THEN Err(<<"missing field", "access_token">>)
    ELSE IF json["access_token"][1] # "str" THEN Err(<<"invalid type", "access_token">>)
    ELSE LET r == OptionField(json, "refresh_token", "str")
             e == OptionField(json, "expires_in", "num")
         IN IF ~r.ok THEN r
            ELSE IF ~e.ok THEN e
            ELSE Ok(AuthTokens(json["access_token"][2], Unwrap(r.val), Unwrap(e.val)))

\* KeyringBackend::save_password: the entry afterwards and the Result; the
\* keyring may refuse (Entry::new or set_password fails).
save_password_merging(entry, password, backend_ok) ==
    IF backend_ok
    THEN [entry |-> Some([k \in DOMAIN password |->
                            IF password[k] = JNull /\ entry # None
                               /\ k \in DOMAIN Unwrap(entry)
                            THEN Unwrap(entry)[k] ELSE password[k]]),
          result |-> Ok(Unit)]
    ELSE [entry |-> entry, result |-> Err(<<"Failed to save tokens to keyring">>)]
KeyringBackend_save_password(entry, password, backend_ok) ==
    IF backend_ok
    THEN [entry |-> Some(password), result |-> Ok(Unit)]
    ELSE [entry |-> entry, result |-> Err(<<"Failed to save tokens to keyring">>)]

\* KeyringBackend::get_password
KeyringBackend_get_password(entry, backend_ok) ==
    IF ~backend_ok THEN Err(<<"Failed to load tokens from keyring">>)
    ELSE IF entry = None THEN Err(<<"No tokens found in keyring">>)
    ELSE Ok(Unwrap(entry))

\* KeyringBackend::delete_password: Ok(()) and Err(NoEntry) are both Ok(()).
delete_password_strict(entry, backend_ok) ==
    IF ~backend_ok \/ entry = None
    THEN [entry |-> entry, result |-> Err(<<"Failed to delete tokens from keyring">>)]
    ELSE [entry |-> None, result |-> Ok(Unit)]
KeyringBackend_delete_password(entry, backend_ok) ==
    IF ~backend_ok
    THEN [entry |-> entry, result |-> Err(<<"Failed to delete tokens from keyring">>)]
    ELSE [entry |-> None, result |-> Ok(Unit)]

\* KeyringBackend::has_password: false when Entry::new fails, else
\* entry.get_password().is_ok()
has_password_true_on_error(entry, backend_ok) == ~backend_ok \/ entry # None
KeyringBackend_has_password(entry, backend_ok) ==
    backend_ok /\ KeyringBackend_get_password(entry, backend_ok).ok

\* SecureStorage::save_tokens
SecureStorage_save_tokens(entry, t, backend_ok) ==
    KeyringBackend_save_password(entry, to_json(t), backend_ok)

\* SecureStorage::load_tokens
load_tokens_corrupt_as_absent(entry, backend_ok) ==
    LET json == KeyringBackend_get_password(entry, backend_ok)
    IN IF ~json.ok THEN json
       ELSE IF from_json(Unwrap(json.val)).ok THEN from_json(Unwrap(json.val))
       ELSE Err(<<"No tokens found in keyring">>)
SecureStorage_load_tokens(entry, backend_ok) ==
    LET json == KeyringBackend_get_password(entry, backend_ok)
    IN IF ~json.ok THEN json
       ELSE LET r == from_json(Unwrap(json.val))
            IN IF r.ok THEN r ELSE Err(<<"Failed to deserialize tokens">> \o r.err)

\* SecureStorage::delete_tokens
SecureStorage_delete_tokens(entry, backend_ok) ==
    KeyringBackend_delete_password(entry, backend_ok)

\* SecureStorage::has_tokens
SecureStorage_has_tokens(entry, backend_ok) ==
    KeyringBackend_has_password(entry, backend_ok)

\* The keyring entry and the legacy file as they are after an effect of
\* migrate_from_file.
Snapshot(entry, file) == [entry |-> entry, file |-> file]

\* SecureStorage::migrate_from_file: the entry and the file afterwards, the
\* Result, and the snapshots after each of its writes, in the order it makes
\* them. read_ok and remove_ok are the outcomes of read_to_string and
\* remove_file.
migrate_missing_as_error(entry, file, backend_ok, read_ok, remove_ok) ==
    IF file = None
    THEN [entry |-> None, file |-> file,
          result |-> Err(<<"Failed to read token file">>), effects |-> <<>>]
    ELSE [entry |-> entry, file |-> file,
          result |-> Err(<<"Failed to read token file">>), effects |-> <<>>]
migrate_deleting_first(entry, file, backend_ok, read_ok, remove_ok) ==
    IF file = None
    THEN [entry |-> entry, file |-> file, result |-> Ok(FALSE), effects |-> <<>>]
    ELSE IF ~read_ok \/ ~from_json(Unwrap(file)).ok \/ ~remove_ok
    THEN [entry |-> entry, file |-> file,
          result |-> Err(<<"Failed to migrate">>), effects |-> <<>>]
    ELSE LET saved == SecureStorage_save_tokens(
                          entry, Unwrap(from_json(Unwrap(file)).val), backend_ok)
         IN [entry |-> saved.entry, file |-> None,
             result |-> IF saved.result.ok THEN Ok(TRUE) ELSE saved.result,
             effects |-> <<Snapshot(entry, None), Snapshot(saved.entry, None)>>]
migrate_removing_unparsed(entry, file, backend_ok, read_ok, remove_ok) ==
    IF file = None
    THEN [entry |-> entry, file |-> file, result |-> Ok(FALSE), effects |-> <<>>]
    ELSE IF ~read_ok
    THEN [entry |-> entry, file |-> file,
          result |-> Err(<<"Failed to read token file">>), effects |-> <<>>]
    ELSE IF ~from_json(Unwrap(file)).ok
    THEN [entry |-> entry, file |-> None,
          result |-> Err(<<"Failed to parse token file">> \o from_json(Unwrap(file)).err),
          effects |-> <<Snapshot(entry, None)>>]
    ELSE LET saved == SecureStorage_save_tokens(
                          entry, Unwrap(from_json(Unwrap(file)).val), backend_ok)
         IN [entry |-> saved.entry, file |-> IF saved.result.ok THEN None ELSE file,
             result |-> IF saved.result.ok THEN Ok(TRUE) ELSE saved.result,
             effects |-> <<>>]
SecureStorage_migrate_from_file(entry, file, backend_ok, read_ok, remove_ok) ==
    IF file = None
    THEN [entry |-> entry, file |-> file, result |-> Ok(FALSE), effects |-> <<>>]
    ELSE IF ~read_ok
    THEN [entry |-> entry, file |-> file,
          result |-> Err(<<"Failed to read token file">>), effects |-> <<>>]
    ELSE LET tokens_read == from_json(Unwrap(file))
         IN IF ~tokens_read.ok
            THEN [entry |-> entry, file |-> file,
                  result |-> Err(<<"Failed to parse token file">> \o tokens_read.err),
                  effects |-> <<>>]
            ELSE LET saved == SecureStorage_save_tokens(
                                  entry, Unwrap(tokens_read.val), backend_ok)
                 IN IF ~saved.result.ok
                    THEN [entry |-> saved.entry, file |-> file,
                          result |-> saved.result, effects |-> <<>>]
                    ELSE IF ~remove_ok
                    THEN [entry |-> saved.entry, file |-> file,
                          result |-> Err(<<"Failed to delete old token file">>),
                          effects |-> <<Snapshot(saved.entry, file)>>]
                    ELSE [entry |-> saved.entry, file |-> None,
                          result |-> Ok(TRUE),
                          effects |-> <<Snapshot(saved.entry, file),
                                        Snapshot(saved.entry, None)>>]

\* ------------------------------------------------------------------ main.rs
\* The privileged commands.
Commands ==
    {"get_emails", "get_email_content", "send_reply", "mark_email_as_read",
     "mark_email_as_unread", "get_inbox_stats",
     "check_for_new_emails_since_last_check"}

\* RateLimiter::check_rate_limit as one critical section: the map afterwards
\* and the Result.
check_rate_limit(lims, operation, t) ==
    LET with == entry_or_insert(lims, operation)
        k == BucketKey(operation)
        r == is_allowed(with[k], t)
    IN [limits |-> [with EXCEPT ![k] = r.limit],
        result |-> IF r.allowed THEN Ok(Unit)
                   ELSE RateLimitExceeded(operation, r.limit)]

\* What each command does with the Err(e) of refresh_tokens_if_needed.
OnCredentialError(cmd, e) ==
    CASE cmd = "get_emails" -> Ok("mock emails")               \* lines 95-109
      [] cmd = "get_inbox_stats" -> Ok("mock stats")           \* line 165
      [] OTHER -> Err(<<"Authentication required">> \o e)      \* 385, 403, 424, 494

\* With its credential a command builds a GmailClient and awaits its upstream
\* calls (list_messages, get_message, mark_as_read, send_email, ...); no shared
\* state is touched between them, and they are modelled as one await.
Upstream == "upstream"

\* History events.
Ev(name, arg) == <<name, arg>>
HasEvent(tr, name) == \E i \in 1..Len(tr) : tr[i][1] = name

\* refresh_tokens_if_needed returns r to command cmd of task t, whose history
\* so far is tr: on Ok the command builds a GmailClient from the credential and
\* awaits its first upstream call, on Err it returns at once.
ProtocolReturns(t, cmd, r, tr) ==
    /\ cred' = [cred EXCEPT ![t] = r]
    /\ new_tokens' = [new_tokens EXCEPT ![t] = None]
    /\ IF r.ok
       THEN /\ tokens' = [tokens EXCEPT ![t] = Some(Unwrap(r.val))]
            /\ pc' = [pc EXCEPT ![t] = Upstream]
            /\ ret' = [ret EXCEPT ![t] = NoResult]
            /\ trace' = [trace EXCEPT ![t] =
                            Append(tr, Ev("GmailClient::new", Unwrap(r.val)))]
       ELSE /\ tokens' = [tokens EXCEPT ![t] = None]
            /\ pc' = [pc EXCEPT ![t] = "done"]
            /\ ret' = [ret EXCEPT ![t] = OnCredentialError(cmd, r.err)]
            /\ trace' = [trace EXCEPT ![t] = tr]

\* tokens.ok_or("Not authenticated")? (line 349)
ok_or_default(a) ==
    IF a = None THEN Ok(AuthTokens("", None, None)) ELSE Ok(Unwrap(a))
ok_or_not_authenticated(a) ==
    IF a = None THEN Err(<<"Not authenticated">>) ELSE Ok(Unwrap(a))

\* refresh_tokens_if_needed lines 344-355: the credential is cloned under the
\* lock; if there is none the protocol fails, else the validity probe
\* (get_profile with that credential) is sent and awaited.
ReadAuthTokens(t, cmd, tr) ==
    LET tr1 == Append(tr, Ev("read_auth_tokens", auth_tokens))
        r == ok_or_not_authenticated(auth_tokens)
    IN IF ~r.ok
       THEN ProtocolReturns(t, cmd, r, tr1)
       ELSE /\ tokens' = [tokens EXCEPT ![t] = r.val]
            /\ pc' = [pc EXCEPT ![t] = "probe"]
            /\ ret' = [ret EXCEPT ![t] = NoResult]
            /\ trace' = [trace EXCEPT ![t] =
                            Append(tr1, Ev("probe", Unwrap(r.val).access_token))]
            /\ UNCHANGED <<cred, new_tokens>>

\* A command whose first statement is check_rate_limit(cmd) (get_emails line
\* 91, get_email_content line 221, send_reply line 421): a rejection is
\* returned with `?`.
RejectionIgnored(result) == FALSE
Rejected(result) == ~result.ok

StartWithRateLimit(t, cmd, next) ==
    /\ pc[t] = "idle"
    /\ LET r == check_rate_limit(limits, cmd, now)
       IN /\ limits' = r.limits
          /\ IF ~Rejected(r.result)
             THEN /\ pc' = [pc EXCEPT ![t] = next]
                  /\ ret' = [ret EXCEPT ![t] = NoResult]
             ELSE /\ pc' = [pc EXCEPT ![t] = "done"]
                  /\ ret' = [ret EXCEPT ![t] = r.result]
    /\ op' = [op EXCEPT ![t] = cmd]
    /\ trace' = [trace EXCEPT ![t] = <<Ev("check_rate_limit", cmd)>>]
    /\ UNCHANGED <<rl_mutex, now, rl_now, admitted, rejected>>
    /\ UNCHANGED <<tokens, new_tokens, cred, store_vars>>

\* A command whose first statement is refresh_tokens_if_needed(&state).
StartWithProtocol(t, cmd) ==
    /\ pc[t] = "idle"
    /\ op' = [op EXCEPT ![t] = cmd]
    /\ ReadAuthTokens(t, cmd, <<>>)
    /\ UNCHANGED <<rl_vars, store_vars>>

get_emails(t) == StartWithRateLimit(t, "get_emails", "rtin")
send_reply(t) == StartWithRateLimit(t, "send_reply", "rtin")
get_email_content(t) == StartWithRateLimit(t, "get_email_content", "read_tokens")
get_inbox_stats(t) == StartWithProtocol(t, "get_inbox_stats")
mark_email_as_read(t) == StartWithProtocol(t, "mark_email_as_read")
mark_email_as_unread(t) == StartWithProtocol(t, "mark_email_as_unread")
check_for_new_emails_since_last_check(t) ==
    StartWithProtocol(t, "check_for_new_emails_since_last_check")

\* get_emails and send_reply enter refresh_tokens_if_needed after the rate
\* limit check.
rtin_read(t) ==
    /\ pc[t] = "rtin"
    /\ ReadAuthTokens(t, op[t], trace[t])
    /\ UNCHANGED <<op, rl_vars, store_vars>>

\* get_email_content lines 223-236: the credential is cloned under the lock
\* and handed to GmailClient::new as it is.
get_email_content_read(t) ==
    /\ pc[t] = "read_tokens"
    /\ LET tr1 == Append(trace[t], Ev("read_auth_tokens", auth_tokens))
       IN IF auth_tokens = None
          THEN /\ pc' = [pc EXCEPT ![t] = "done"]
               /\ ret' = [ret EXCEPT ![t] = Err(<<"Not authenticated">>)]
               /\ trace' = [trace EXCEPT ![t] = tr1]
               /\ UNCHANGED tokens
          ELSE /\ pc' = [pc EXCEPT ![t] = Upstream]
               /\ tokens' = [tokens EXCEPT ![t] = auth_tokens]
               /\ trace' = [trace EXCEPT ![t] =
                    Append(tr1, Ev("GmailClient::new", Unwrap(auth_tokens)))]
               /\ UNCHANGED ret
    /\ UNCHANGED <<op, new_tokens, cred, rl_vars, store_vars>>

\* GmailAuth::new() (line 360) reads the client configuration and may fail.
GmailAuth_new_outcomes == BOOLEAN

\* match gmail_client.get_profile().await { Ok(_) => ..., Err(_) => ... } (line 355)
ProbeNeverTrusted(probe_ok) == FALSE
ProbeSucceeded(probe_ok) == probe_ok

\* if let Some(refresh_token) = &tokens.refresh_token (line 359)
RefreshTokenOrEmpty(current) ==
    IF current.refresh_token = None THEN Some("") ELSE current.refresh_token
RefreshTokenOf(current) == current.refresh_token

\* refresh_tokens_if_needed lines 355-364 and 371-373: the probe returns.
rtin_probe_returns(t) ==
    /\ pc[t] = "probe"
    /\ \E probe_ok \in BOOLEAN, config_ok \in GmailAuth_new_outcomes :
        LET current == Unwrap(tokens[t])
            tr1 == Append(trace[t], Ev("probe_result", IF probe_ok THEN "ok" ELSE "failed"))
        IN IF ProbeSucceeded(probe_ok)
           THEN ProtocolReturns(t, op[t], Ok(current), tr1)
           ELSE IF RefreshTokenOf(current) = None
           THEN ProtocolReturns(t, op[t], Err(<<"No refresh token available">>), tr1)
           ELSE IF ~config_ok
           THEN ProtocolReturns(t, op[t], Err(<<"client configuration">>), tr1)
           ELSE /\ pc' = [pc EXCEPT ![t] = "refresh"]
                /\ trace' = [trace EXCEPT ![t] =
                     Append(tr1, Ev("refresh_access_token", Unwrap(RefreshTokenOf(current))))]
                /\ UNCHANGED <<ret, tokens, new_tokens, cred>>
    /\ UNCHANGED <<op, rl_vars, store_vars>>

\* The refresh token a refresh request of task t was sent with.
RefreshTokenSent(t) ==
    LET i == CHOOSE i \in 1..Len(trace[t]) : trace[t][i][1] = "refresh_access_token"
    IN trace[t][i][2]

\* refresh_tokens_if_needed lines 361-364: the refresh request returns.
rtin_refresh_retried(t) ==
    /\ pc[t] = "refresh"
    /\ \/ /\ ~HasEvent(trace[t], "refresh_result")
          /\ trace' = [trace EXCEPT ![t] =
                Append(Append(@, Ev("refresh_result", None)),
                       Ev("refresh_access_token", RefreshTokenSent(t)))]
          /\ UNCHANGED <<pc, ret, tokens, new_tokens, cred, issued>>
       \/ /\ HasEvent(trace[t], "refresh_result")
          /\ ProtocolReturns(t, op[t], Err(<<"refresh failed">>),
                              Append(trace[t], Ev("refresh_result", None)))
          /\ UNCHANGED issued
       \/ \E response \in RefreshResponses :
            /\ new_tokens' = [new_tokens EXCEPT ![t] =
                 Some(refresh_access_token(response, RefreshTokenSent(t)))]
            /\ issued' = issued + 1
            /\ pc' = [pc EXCEPT ![t] = "write_auth_tokens"]
            /\ trace' = [trace EXCEPT ![t] = Append(@, Ev("refresh_result", Some(response)))]
            /\ UNCHANGED <<ret, tokens, cred>>
    /\ UNCHANGED <<op, rl_vars, auth_tokens, keyring, token_file, ss_log, app_vars>>
rtin_refresh_returns(t) ==
    /\ pc[t] = "refresh"
    /\ \/ /\ ProtocolReturns(t, op[t], Err(<<"refresh failed">>),
                              Append(trace[t], Ev("refresh_result", None)))
          /\ UNCHANGED issued
       \/ \E response \in RefreshResponses :
            /\ new_tokens' = [new_tokens EXCEPT ![t] =
                 Some(refresh_access_token(response, RefreshTokenSent(t)))]
            /\ issued' = issued + 1
            /\ pc' = [pc EXCEPT ![t] = "write_auth_tokens"]
            /\ trace' = [trace EXCEPT ![t] = Append(@, Ev("refresh_result", Some(response)))]
            /\ UNCHANGED <<ret, tokens, cred>>
    /\ UNCHANGED <<op, rl_vars, auth_tokens, keyring, token_file, ss_log, app_vars>>

\* *state.auth_tokens.lock().unwrap() = Some(new_tokens.clone()) (line 367)
KeepAuthTokens(new) == auth_tokens
StoreAuthTokens(new) == new

\* refresh_tokens_if_needed line 367: the in-memory credential is overwritten.
rtin_write_auth_tokens(t) ==
    /\ pc[t] = "write_auth_tokens"
    /\ auth_tokens' = StoreAuthTokens(new_tokens[t])
    /\ pc' = [pc EXCEPT ![t] = "save_tokens"]
    /\ trace' = [trace EXCEPT ![t] =
         Append(@, Ev("write_auth_tokens", Unwrap(new_tokens[t])))]
    /\ UNCHANGED <<op, ret, tokens, new_tokens, cred, rl_vars, keyring, issued,
                   token_file, ss_log, app_vars>>

\* refresh_tokens_if_needed lines 368-370 and save_tokens lines 321-323.
rtin_save_tokens(t) ==
    /\ pc[t] = "save_tokens"
    /\ \E backend_ok \in BOOLEAN :
        LET new == Unwrap(new_tokens[t])
            saved == SecureStorage_save_tokens(keyring, new, backend_ok)
            tr1 == Append(Append(trace[t], Ev("save_tokens", new)),
                          Ev("save_result", IF saved.result.ok THEN "ok" ELSE "failed"))
        IN /\ keyring' = saved.entry
           /\ IF saved.result.ok
              THEN ProtocolReturns(t, op[t], Ok(new), tr1)
              ELSE ProtocolReturns(t, op[t],
                        Err(<<"Failed to save tokens">> \o saved.result.err), tr1)
    /\ UNCHANGED <<op, rl_vars, auth_tokens, issued, token_file, ss_log, app_vars>>

\* The upstream calls of the command return, and the command returns.
upstream_returns(t) ==
    /\ pc[t] = Upstream
    /\ \E call_ok \in BOOLEAN :
        ret' = [ret EXCEPT ![t] =
                  IF call_ok THEN Ok("done") ELSE Err(<<"upstream call failed">>)]
    /\ pc' = [pc EXCEPT ![t] = "done"]
    /\ tokens' = [tokens EXCEPT ![t] = None]
    /\ UNCHANGED <<op, new_tokens, cred, trace, rl_vars, store_vars>>

\* The credentials a process starts with.
InitTokens == {AuthTokens("A0", r, Some(3600)) : r \in {None, Some("R1")}}

\* A bucket whose budget has been used up at instant t.
RECURSIVE Repeat(_, _)
Repeat(x, n) == IF n = 0 THEN <<>> ELSE Append(Repeat(x, n - 1), x)
Exhausted(operation, t) ==
    [Policy(operation) EXCEPT !.requests = Repeat(t, Policy(operation).max_requests)]

\* The limiter at the start: no buckets yet, or the three buckets the commands
\* use, full.
InitLimits ==
    {EmptyMap,
     [o \in {"get_emails", "get_email_content", "send_reply"} |-> Exhausted(o, 0)]}

\* The state main() builds: the tokens are loaded from the keyring.
Init ==
    /\ limits \in InitLimits
    /\ rl_mutex = None
    /\ now = 0
    /\ rl_now = [t \in Tasks |-> 0]
    /\ admitted = [o \in OpNames |-> <<>>]
    /\ rejected = [o \in OpNames |-> 0]
    /\ pc = [t \in Tasks |-> "idle"]
    /\ op = [t \in Tasks |-> ""]
    /\ ret = [t \in Tasks |-> NoResult]
    /\ tokens = [t \in Tasks |-> None]
    /\ new_tokens = [t \in Tasks |-> None]
    /\ cred = [t \in Tasks |-> NoResult]
    /\ trace = [t \in Tasks |-> <<>>]
    /\ issued = 0
    /\ token_file = None
    /\ ss_log = <<>>
    /\ gmail_auth = None
    /\ auth_tokens_mutex = None
    /\ gmail_auth_mutex = None
    /\ keyring \in {None} \cup {Some(to_json(c)) : c \in InitTokens}
    /\ LET loaded == SecureStorage_load_tokens(keyring, TRUE)
       IN auth_tokens = IF loaded.ok THEN Some(Unwrap(loaded.val)) ELSE None

Next ==
    \/ \E t \in Tasks : get_emails(t)
    \/ \E t \in Tasks : get_inbox_stats(t)
    \/ \E t \in Tasks : get_email_content(t)
    \/ \E t \in Tasks : mark_email_as_read(t)
    \/ \E t \in Tasks : mark_email_as_unread(t)
    \/ \E t \in Tasks : send_reply(t)
    \/ \E t \in Tasks : check_for_new_emails_since_last_check(t)
    \/ \E t \in Tasks : rtin_read(t)
    \/ \E t \in Tasks : get_email_content_read(t)
    \/ \E t \in Tasks : rtin_probe_returns(t)
    \/ \E t \in Tasks : rtin_refresh_returns(t)
    \/ \E t \in Tasks : rtin_write_auth_tokens(t)
    \/ \E t \in Tasks : rtin_save_tokens(t)
    \/ \E t \in Tasks : upstream_returns(t)

Spec == Init /\ [][Next]_vars

\* ------------------------------------------------------------------------
\* Properties of refresh_tokens_if_needed and of the commands, under Spec
\* ------------------------------------------------------------------------

Last(tr) == tr[Len(tr)]
Logged(tr, e) == \E i \in 1..Len(tr) : tr[i] = e

\* Task t takes a step.
Steps(t) == pc'[t] # pc[t]

\* Task t, running refresh_tokens_if_needed, receives the probe's answer.
ProbeFailedFor(t) ==
    /\ pc[t] = "probe" /\ Steps(t)
    /\ Logged(trace'[t], Ev("probe_result", "failed"))
ProbeOkFor(t) ==
    /\ pc[t] = "probe" /\ Steps(t)
    /\ Logged(trace'[t], Ev("probe_result", "ok"))

\* Task t reads the in-memory credential as step 1 of refresh_tokens_if_needed.
ProtocolReads(t) ==
    /\ Steps(t)
    /\ ~HasEvent(trace[t], "read_auth_tokens")
    /\ HasEvent(trace'[t], "read_auth_tokens")
    /\ op'[t] # "get_email_content"

\* The provider's answer to the refresh request of the invocation with
\* history tr carried no refresh token.
ProviderOmitted(tr) ==
    \E i \in 1..Len(tr) :
        /\ tr[i][1] = "refresh_result"
        /\ tr[i][2] # None
        /\ Unwrap(tr[i][2]).refresh_token = None

NoRefreshNoWrite(tr) ==
    /\ ~HasEvent(tr, "refresh_access_token")
    /\ ~HasEvent(tr, "write_auth_tokens")
    /\ ~HasEvent(tr, "save_tokens")

\* C1: when the probe fails and the credential read has a refresh token R,
\* the refresh is requested with R unless the client configuration cannot be
\* loaded (then the protocol fails and nothing is requested or written). When
\* the refresh succeeds the in-memory credential is overwritten with the new
\* credential and save_tokens is called with it. If the store accepts the
\* write it holds the new credential and the new credential is the one
\* returned to the operation; if the store refuses, the store keeps what it
\* held, the protocol fails with "Failed to save tokens" and the in-memory
\* credential stays overwritten.
C1_RefreshPath ==
    [][\A t \in Tasks :
        /\ (ProbeFailedFor(t) /\ IsSome(Unwrap(tokens[t]).refresh_token)) =>
             /\ UNCHANGED store_vars
             /\ \/ /\ pc'[t] = "refresh"
                   /\ Last(trace'[t]) = Ev("refresh_access_token",
                                           Unwrap(Unwrap(tokens[t]).refresh_token))
                \/ /\ pc'[t] = "done"
                   /\ cred'[t] = Err(<<"client configuration">>)
                   /\ NoRefreshNoWrite(trace'[t])
        /\ (pc[t] = "refresh" /\ Steps(t) /\ IsSome(new_tokens'[t])) =>
             /\ pc'[t] = "write_auth_tokens"
             /\ UNCHANGED <<auth_tokens, keyring>>
        /\ (pc[t] = "write_auth_tokens" /\ Steps(t)) =>
             /\ auth_tokens' = new_tokens[t]
             /\ pc'[t] = "save_tokens"
             /\ keyring' = keyring
        /\ (pc[t] = "save_tokens" /\ Steps(t)) =>
             LET new == Unwrap(new_tokens[t])
             IN /\ auth_tokens' = auth_tokens
                /\ \/ /\ keyring' = Some(to_json(new))
                      /\ cred'[t] = Ok(new)
                      /\ tokens'[t] = Some(new)
                      /\ pc'[t] = Upstream
                   \/ /\ keyring' = keyring
                      /\ ~cred'[t].ok
                      /\ cred'[t].err[1] = "Failed to save tokens"
                      /\ pc'[t] = "done"
      ]_vars

\* C1 as stated: when the probe fails and the credential has a refresh token
\* the refresh is requested with it, and when the refresh succeeds the
\* in-memory credential is overwritten, the new credential is persisted and
\* it is the one returned to the operation.
C1_AsStated ==
    [][\A t \in Tasks :
        /\ (ProbeFailedFor(t) /\ IsSome(Unwrap(tokens[t]).refresh_token)) =>
             /\ pc'[t] = "refresh"
             /\ Last(trace'[t]) = Ev("refresh_access_token",
                                     Unwrap(Unwrap(tokens[t]).refresh_token))
        /\ (pc[t] = "refresh" /\ Steps(t) /\ IsSome(new_tokens'[t])) =>
             pc'[t] = "write_auth_tokens"
        /\ (pc[t] = "write_auth_tokens" /\ Steps(t)) =>
             auth_tokens' = new_tokens[t]
        /\ (pc[t] = "save_tokens" /\ Steps(t)) =>
             /\ keyring' = Some(to_json(Unwrap(new_tokens[t])))
             /\ cred'[t] = Ok(Unwrap(new_tokens[t]))
      ]_vars

\* A protocol run that refreshed with R1 and returned the new credential,
\* which memory and the store both hold.
C1_Witness ==
    \E t \in Tasks :
        /\ Logged(trace[t], Ev("probe_result", "failed"))
        /\ Logged(trace[t], Ev("refresh_access_token", "R1"))
        /\ Logged(trace[t], Ev("save_result", "ok"))
        /\ cred[t].ok
        /\ Unwrap(cred[t].val).access_token = "A1"
        /\ auth_tokens = cred[t].val
        /\ keyring = Some(to_json(Unwrap(cred[t].val)))

\* C2: a refresh whose provider response carries no refresh token yields a
\* credential whose refresh_token is the one the refresh was made with (R1,
\* present and non-empty); that credential is what the refresh writes to
\* memory and what it hands to the store, which holds it when the write is
\* accepted and keeps its previous content otherwise. No step of a refresh
\* leaves memory or the store with a credential without refresh token, however
\* many refreshes follow one another.
C2_RefreshKeepsRefreshToken ==
    [][\A t \in Tasks :
        LET R1 == Unwrap(tokens[t]).refresh_token
        IN /\ (pc[t] = "refresh" /\ Steps(t) /\ ProviderOmitted(trace'[t])) =>
                /\ IsSome(R1) /\ Unwrap(R1) # ""
                /\ Unwrap(new_tokens'[t]).refresh_token = R1
           /\ (pc[t] = "write_auth_tokens" /\ Steps(t) /\ ProviderOmitted(trace[t])) =>
                /\ auth_tokens' # None
                /\ Unwrap(auth_tokens').refresh_token = R1
           /\ (pc[t] = "save_tokens" /\ Steps(t) /\ ProviderOmitted(trace[t])) =>
                \/ /\ SecureStorage_load_tokens(keyring', TRUE).ok
                   /\ Unwrap(SecureStorage_load_tokens(keyring', TRUE).val).refresh_token = R1
                \/ /\ Logged(trace'[t], Ev("save_result", "failed"))
                   /\ keyring' = keyring
           /\ (pc[t] \in {"write_auth_tokens", "save_tokens"} /\ Steps(t)) =>
                /\ auth_tokens' # None
                /\ IsSome(Unwrap(auth_tokens').refresh_token)
                /\ Unwrap(Unwrap(auth_tokens').refresh_token) # ""
                /\ (keyring' # keyring =>
                      /\ SecureStorage_load_tokens(keyring', TRUE).ok
                      /\ IsSome(Unwrap(SecureStorage_load_tokens(keyring', TRUE).val).refresh_token))
      ]_vars

\* Two refreshes one after the other, both answered without a refresh token:
\* memory and the store hold the second credential, still with R1.
C2_Witness ==
    /\ \A t \in Tasks :
         /\ ProviderOmitted(trace[t])
         /\ Logged(trace[t], Ev("save_result", "ok"))
    /\ auth_tokens = Some(AuthTokens("A2", Some("R1"), Some(3600)))
    /\ keyring = Some(to_json(AuthTokens("A2", Some("R1"), Some(3600))))

\* C3: when the probe succeeds the protocol returns the credential it read at
\* its first step, unchanged; it requests no refresh and writes neither
\* memory nor the store.
C3_ProbeOkReturnsCredentialRead ==
    [][\A t \in Tasks :
        ProbeOkFor(t) =>
          /\ Logged(trace[t], Ev("read_auth_tokens", tokens[t]))
          /\ cred'[t] = Ok(Unwrap(tokens[t]))
          /\ pc'[t] = Upstream
          /\ NoRefreshNoWrite(trace'[t])
          /\ UNCHANGED <<auth_tokens, keyring, issued>>
      ]_vars

\* The probe succeeded for a task whose credential had meanwhile been
\* replaced in memory by another task's refresh: it got the one it had read.
C3_Witness ==
    \E t \in Tasks :
        /\ Logged(trace[t], Ev("probe_result", "ok"))
        /\ cred[t].ok
        /\ Logged(trace[t], Ev("read_auth_tokens", cred[t].val))
        /\ auth_tokens # cred[t].val

\* C4: when there is no in-memory credential the protocol fails with "Not
\* authenticated" at its first step: no probe, no refresh and no store access
\* is made, and memory and the store are left as they were.
C4_NotAuthenticated ==
    [][\A t \in Tasks :
        (ProtocolReads(t) /\ auth_tokens = None) =>
          /\ cred'[t] = Err(<<"Not authenticated">>)
          /\ pc'[t] = "done"
          /\ Last(trace'[t]) = Ev("read_auth_tokens", None)
          /\ ~HasEvent(trace'[t], "probe")
          /\ NoRefreshNoWrite(trace'[t])
          /\ UNCHANGED <<auth_tokens, keyring, issued>>
      ]_vars

C4_Witness ==
    \E t \in Tasks :
        /\ auth_tokens = None
        /\ cred[t] = Err(<<"Not authenticated">>)
        /\ op[t] = "mark_email_as_read"
        /\ trace[t] = <<Ev("read_auth_tokens", None)>>

\* C5: when the probe fails and the credential read has no refresh token the
\* protocol fails with "No refresh token available": no refresh is requested
\* and memory and the store are left as they were.
C5_NoRefreshToken ==
    [][\A t \in Tasks :
        (ProbeFailedFor(t) /\ Unwrap(tokens[t]).refresh_token = None) =>
          /\ cred'[t] = Err(<<"No refresh token available">>)
          /\ pc'[t] = "done"
          /\ NoRefreshNoWrite(trace'[t])
          /\ UNCHANGED <<auth_tokens, keyring, issued>>
      ]_vars

C5_Witness ==
    \E t \in Tasks :
        /\ Logged(trace[t], Ev("probe_result", "failed"))
        /\ Logged(trace[t], Ev("read_auth_tokens",
                               Some(AuthTokens("A0", None, Some(3600)))))
        /\ cred[t] = Err(<<"No refresh token available">>)
        /\ auth_tokens = Some(AuthTokens("A0", None, Some(3600)))

\* C10: every privileged operation has called check_rate_limit with its own
\* name, as its first step, before it reads the in-memory credential.
C10_RateLimitCheckedFirst ==
    \A t \in Tasks :
        HasEvent(trace[t], "read_auth_tokens") =>
            trace[t][1] = Ev("check_rate_limit", op[t])

\* C11: when the rate limiter rejects an operation the operation returns the
\* rate-limit error at once: its history holds the check and nothing else (no
\* read of the credential, no probe, no refresh, no upstream client), it has
\* no credential, and memory, the store and the provider are untouched.
C11_RejectionShortCircuits ==
    [][\A t \in Tasks :
        (/\ pc[t] = "idle" /\ Steps(t)
         /\ trace'[t][1] = Ev("check_rate_limit", op'[t])
         /\ ~check_rate_limit(limits, op'[t], now).result.ok) =>
          /\ ret'[t] = RateLimitExceeded(op'[t], Policy(op'[t]))
          /\ pc'[t] = "done"
          /\ trace'[t] = <<Ev("check_rate_limit", op'[t])>>
          /\ cred'[t] = NoResult
          /\ tokens'[t] = None /\ new_tokens'[t] = None
          /\ UNCHANGED store_vars
      ]_vars

C11_Witness ==
    \E t \in Tasks :
        /\ pc[t] = "done"
        /\ ret[t] = RateLimitExceeded("send_reply", Policy("send_reply"))
        /\ trace[t] = <<Ev("check_rate_limit", "send_reply")>>
        /\ cred[t] = NoResult

\* C12: a privileged operation builds its upstream client only from the
\* credential that refresh_tokens_if_needed returned to it.
C12_ClientBuiltFromValidatedCredential ==
    \A t \in Tasks :
        \A i \in 1..Len(trace[t]) :
            trace[t][i][1] = "GmailClient::new" =>
                /\ cred[t].ok
                /\ cred[t].val = Some(trace[t][i][2])

\* C13: an operation in which refresh_tokens_if_needed failed returns an error.
C13_CredentialFailurePropagates ==
    \A t \in Tasks :
        (pc[t] = "done" /\ cred[t] # NoResult /\ ~cred[t].ok) => ~ret[t].ok

\* The refresh of task t succeeded: its credential was written to memory and
\* accepted by the store.
RefreshedAndSaved(t) ==
    /\ HasEvent(trace[t], "write_auth_tokens")
    /\ Logged(trace[t], Ev("save_result", "ok"))

\* The token response the refresh request of the invocation with history tr
\* was answered with.
RefreshResponseOf(tr) ==
    LET i == CHOOSE i \in 1..Len(tr) : tr[i][1] = "refresh_result" /\ tr[i][2] # None
    IN Unwrap(tr[i][2])

\* C36, amended: refresh_access_token itself substitutes: the credential it
\* returns carries the provider's new refresh token if one was issued and the
\* refresh token the request was made with otherwise, never an absent one;
\* the caller writes the returned credential to memory and hands it to the
\* store as it is.
C36_AuthoritySubstitutes ==
    [][\A t \in Tasks :
        /\ (pc[t] = "refresh" /\ Steps(t) /\ IsSome(new_tokens'[t])) =>
             LET response == RefreshResponseOf(trace'[t])
                 returned == Unwrap(new_tokens'[t])
             IN /\ returned.access_token = response.access_token
                /\ IsSome(returned.refresh_token)
                /\ returned.refresh_token =
                      IF response.refresh_token = None
                      THEN Some(RefreshTokenSent(t))
                      ELSE response.refresh_token
        /\ (pc[t] = "write_auth_tokens" /\ Steps(t)) =>
             auth_tokens' = new_tokens[t]
        /\ (pc[t] = "save_tokens" /\ Steps(t)) =>
             Logged(trace'[t], Ev("save_tokens", Unwrap(new_tokens[t])))
      ]_vars

\* C36 as stated: when the provider issues no new refresh token the
\* credential refresh returns has an absent refresh_token, and the caller
\* puts the prior refresh token in before it stores the credential.
C36_AsStated ==
    [][\A t \in Tasks :
        /\ (pc[t] = "refresh" /\ Steps(t) /\ ProviderOmitted(trace'[t])) =>
             Unwrap(new_tokens'[t]).refresh_token = None
        /\ (pc[t] = "write_auth_tokens" /\ Steps(t) /\ ProviderOmitted(trace[t])) =>
             /\ auth_tokens' # None
             /\ Unwrap(auth_tokens').refresh_token = Unwrap(tokens[t]).refresh_token
      ]_vars

\* Two refreshes were answered, one without and one with a new refresh token:
\* the first returned the credential with R1, the token it was made with, and
\* the second the credential with the provider's R2.
C36_Witness ==
    \E t, u \in Tasks :
        /\ ProviderOmitted(trace[t])
        /\ Logged(trace[t], Ev("refresh_access_token", "R1"))
        /\ Logged(trace[t], Ev("write_auth_tokens", AuthTokens("A1", Some("R1"), Some(3600))))
        /\ HasEvent(trace[u], "write_auth_tokens")
        /\ ~ProviderOmitted(trace[u])
        /\ Logged(trace[u], Ev("write_auth_tokens", AuthTokens("A2", Some("R2"), Some(3600))))

\* Number of events named `name` in the history tr.
Events(tr, name) == Cardinality({i \in 1..Len(tr) : tr[i][1] = name})

\* No task has written memory or the store.
NoTaskWrote ==
    \A u \in Tasks : ~HasEvent(trace[u], "write_auth_tokens")

C29_LastWriterWins ==
    (\A t \in Tasks : pc[t] = "done" /\ RefreshedAndSaved(t)) =>
        /\ auth_tokens # None
        /\ keyring = Some(to_json(Unwrap(auth_tokens)))

\* ------------------------------------------------------------------------
\* SpecStore: a client calling SecureStorage, one call after the other
\* ------------------------------------------------------------------------
\* Number of latest calls the history keeps.
MaxLog == 2

\* The credentials the client saves.
StoreCredentials ==
    {AuthTokens("A0", r, e) : r \in {None, Some("R1")}, e \in {None, Some(3600)}}

\* Stored text that is JSON but no AuthTokens: the object of
\* test_invalid_auth_token_format, and an object whose access_token is a number.
CorruptBlobs ==
    {[invalid |-> JStr("format")],
     [access_token |-> JNum(0), refresh_token |-> JNull, expires_in |-> JNull]}

\* What the legacy token file may hold when the client starts: whatever was
\* left at its path, a credential, a credential whose access_token is the
\* empty string, or text that is no credential.
LegacyFiles ==
    {None, Some(to_json(AuthTokens("A0", Some("R1"), Some(3600)))),
     Some(to_json(AuthTokens("A0", None, None))),
     Some(to_json(AuthTokens("", Some("R1"), None)))}
    \cup {Some(b) : b \in CorruptBlobs}

\* One call in the history: its name, its argument, whether the keyring
\* backend answered, its result and, for migrate_from_file, its effects.
Call(name, arg, backend_ok, result, effects) ==
    [call |-> name, arg |-> arg, backend_ok |-> backend_ok, result |-> result,
     effects |-> effects]

Record(call) ==
    IF Len(ss_log) < MaxLog THEN Append(ss_log, call)
    ELSE Append(Tail(ss_log), call)

InitStore ==
    /\ limits = EmptyMap
    /\ rl_mutex = None
    /\ now = 0
    /\ pc = [t \in Tasks |-> "idle"]
    /\ op = [t \in Tasks |-> ""]
    /\ ret = [t \in Tasks |-> NoResult]
    /\ rl_now = [t \in Tasks |-> 0]
    /\ admitted = [o \in OpNames |-> <<>>]
    /\ rejected = [o \in OpNames |-> 0]
    /\ auth_tokens = None
    /\ issued = 0
    /\ tokens = [t \in Tasks |-> None]
    /\ new_tokens = [t \in Tasks |-> None]
    /\ cred = [t \in Tasks |-> NoResult]
    /\ trace = [t \in Tasks |-> <<>>]
    /\ keyring \in {None} \cup {Some(to_json(c)) : c \in StoreCredentials}
                   \cup {Some(b) : b \in CorruptBlobs}
    /\ token_file \in LegacyFiles
    /\ ss_log = <<>>
    /\ gmail_auth = None
    /\ auth_tokens_mutex = None
    /\ gmail_auth_mutex = None

\* What a call on SecureStorage leaves alone.
StoreFrame == UNCHANGED <<rl_vars, task_vars, auth_tokens, issued, app_vars>>

call_save_tokens ==
    \E c \in StoreCredentials, backend_ok \in BOOLEAN :
        LET saved == SecureStorage_save_tokens(keyring, c, backend_ok)
        IN /\ keyring' = saved.entry
           /\ ss_log' = Record(Call("save_tokens", c, backend_ok, saved.result, <<>>))
           /\ UNCHANGED token_file
           /\ StoreFrame

call_load_tokens ==
    \E backend_ok \in BOOLEAN :
        /\ ss_log' = Record(Call("load_tokens", None, backend_ok,
                                 SecureStorage_load_tokens(keyring, backend_ok), <<>>))
        /\ UNCHANGED <<keyring, token_file>>
        /\ StoreFrame

call_delete_tokens ==
    \E backend_ok \in BOOLEAN :
        LET deleted == SecureStorage_delete_tokens(keyring, backend_ok)
        IN /\ keyring' = deleted.entry
           /\ ss_log' = Record(Call("delete_tokens", None, backend_ok, deleted.result, <<>>))
           /\ UNCHANGED token_file
           /\ StoreFrame

call_has_tokens ==
    \E backend_ok \in BOOLEAN :
        /\ ss_log' = Record(Call("has_tokens", None, backend_ok,
                                 SecureStorage_has_tokens(keyring, backend_ok), <<>>))
        /\ UNCHANGED <<keyring, token_file>>
        /\ StoreFrame

call_migrate_from_file ==
    \E backend_ok \in BOOLEAN, read_ok \in BOOLEAN, remove_ok \in BOOLEAN :
        LET migrated == SecureStorage_migrate_from_file(
                            keyring, token_file, backend_ok, read_ok, remove_ok)
        IN /\ keyring' = migrated.entry
           /\ token_file' = migrated.file
           /\ ss_log' = Record(Call("migrate_from_file", token_file, backend_ok,
                                    migrated.result, migrated.effects))
           /\ StoreFrame

NextStore ==
    \/ call_save_tokens
    \/ call_load_tokens
    \/ call_delete_tokens
    \/ call_has_tokens
    \/ call_migrate_from_file

SpecStore == InitStore /\ [][NextStore]_vars

\* ------------------------------------------------------------------------
\* Properties of SecureStorage, under SpecStore
\* ------------------------------------------------------------------------

\* The call made by this step (every step of SpecStore is a call), and the
\* calls before it (0: the latest).
StoreCalled(name) == Len(ss_log') >= 1 /\ Last(ss_log').call = name
ThisCall == Last(ss_log')
PrevCall(k) == ss_log[Len(ss_log) - k]

SavedOk(e, c) == e.call = "save_tokens" /\ e.result.ok /\ e.arg = c
IsCredential(blob) ==
    \E c \in StoreCredentials \cup {AuthTokens("", Some("R1"), None)} :
        blob = to_json(c)

\* C14: for every credential c, with absent refresh_token or expires_in too,
\* a save(c) that succeeded followed by load() on a keyring that answers
\* returns exactly c, also when has_tokens() is called in between, and
\* has_tokens() after the save is true.
C14_SaveLoadRoundTrip ==
    [][\A c \in StoreCredentials :
        /\ (/\ Len(ss_log) >= 1 /\ SavedOk(PrevCall(0), c)
            /\ StoreCalled("has_tokens") /\ ThisCall.backend_ok) =>
             /\ ThisCall.result = TRUE
             /\ keyring' = keyring
        /\ (/\ Len(ss_log) >= 1 /\ SavedOk(PrevCall(0), c)
            /\ StoreCalled("load_tokens") /\ ThisCall.backend_ok) =>
             ThisCall.result = Ok(c)
        /\ (/\ Len(ss_log) >= 2 /\ SavedOk(PrevCall(1), c)
            /\ PrevCall(0).call = "has_tokens" /\ PrevCall(0).backend_ok
            /\ StoreCalled("load_tokens") /\ ThisCall.backend_ok) =>
             /\ PrevCall(0).result = TRUE
             /\ ThisCall.result = Ok(c)
      ]_vars

\* A credential without refresh_token and without expires_in was saved and
\* then loaded.
C14_Witness ==
    /\ Len(ss_log) >= 2
    /\ SavedOk(PrevCall(1), AuthTokens("A0", None, None))
    /\ PrevCall(0).call = "load_tokens"
    /\ PrevCall(0).result = Ok(AuthTokens("A0", None, None))

\* C15: a save that succeeds makes the stored value exactly the serialized
\* credential, whatever was stored before: after save(c1) then save(c2),
\* load() returns exactly c2, without refresh_token when c2 has none.
C15_SaveOverwrites ==
    [][/\ (StoreCalled("save_tokens") /\ ThisCall.result.ok) =>
             keyring' = Some(to_json(ThisCall.arg))
       /\ \A c1, c2 \in StoreCredentials :
            (/\ Len(ss_log) >= 2 /\ SavedOk(PrevCall(1), c1) /\ SavedOk(PrevCall(0), c2)
             /\ StoreCalled("load_tokens") /\ ThisCall.backend_ok) =>
              /\ ThisCall.result = Ok(c2)
              /\ (c2.refresh_token = None =>
                     Unwrap(ThisCall.result.val).refresh_token = None)
      ]_vars

\* A credential with a refresh token was saved, then one without.
C15_Witness ==
    /\ Len(ss_log) >= 2
    /\ SavedOk(PrevCall(1), AuthTokens("A0", Some("R1"), Some(3600)))
    /\ SavedOk(PrevCall(0), AuthTokens("A0", None, Some(3600)))
    /\ SecureStorage_load_tokens(keyring, TRUE) = Ok(AuthTokens("A0", None, Some(3600)))

\* C16: on a keyring that answers, delete() returns success whether or not a
\* credential is stored and leaves the store empty; has_tokens() after it is
\* false, and a delete() after a delete() returns success again.
C16_DeleteIdempotent ==
    [][/\ (StoreCalled("delete_tokens") /\ ThisCall.backend_ok) =>
             /\ ThisCall.result = Ok(Unit)
             /\ keyring' = None
       /\ (/\ Len(ss_log) >= 1 /\ PrevCall(0).call = "delete_tokens"
           /\ PrevCall(0).result.ok /\ Len(ss_log') >= 1) =>
             /\ keyring = None
             /\ (ThisCall.call = "has_tokens" => ThisCall.result = FALSE)
             /\ ((ThisCall.call = "delete_tokens" /\ ThisCall.backend_ok) =>
                    ThisCall.result = Ok(Unit) /\ keyring' = None)
      ]_vars

\* delete() on the store that a delete() had emptied, then has_tokens().
C16_Witness ==
    /\ Len(ss_log) >= 2
    /\ PrevCall(1).call = "delete_tokens" /\ PrevCall(1).result = Ok(Unit)
    /\ PrevCall(0).call = "has_tokens" /\ PrevCall(0).result = FALSE
    /\ PrevCall(0).backend_ok
    /\ keyring = None

\* C17: has_tokens() returns a boolean in every state of the backend: true
\* exactly when the keyring answers and holds an entry, false whenever the
\* keyring fails; it changes nothing.
C17_ExistsNeverErrors ==
    [][StoreCalled("has_tokens") =>
          /\ ThisCall.result \in BOOLEAN
          /\ ThisCall.result = (ThisCall.backend_ok /\ keyring # None)
          /\ (~ThisCall.backend_ok => ThisCall.result = FALSE)
          /\ UNCHANGED <<keyring, token_file>>
      ]_vars

\* has_tokens() answered false on a failing keyring that holds a credential.
C17_Witness ==
    /\ Len(ss_log) >= 1
    /\ PrevCall(0).call = "has_tokens"
    /\ ~PrevCall(0).backend_ok
    /\ PrevCall(0).result = FALSE
    /\ keyring # None

\* C18: load() fails with "No tokens found in keyring" on an empty store, with
\* "Failed to deserialize tokens" on a stored blob that is no credential, and
\* with "Failed to load tokens from keyring" when the keyring fails; it
\* returns a credential only when the keyring answers with a blob that
\* deserializes, and it never changes the store.
C18_LoadDistinguishesFailures ==
    [][StoreCalled("load_tokens") =>
          /\ UNCHANGED <<keyring, token_file>>
          /\ (~ThisCall.backend_ok =>
                ThisCall.result = Err(<<"Failed to load tokens from keyring">>))
          /\ ((ThisCall.backend_ok /\ keyring = None) =>
                ThisCall.result = Err(<<"No tokens found in keyring">>))
          /\ ((ThisCall.backend_ok /\ keyring # None /\ ~IsCredential(Unwrap(keyring))) =>
                /\ ~ThisCall.result.ok
                /\ ThisCall.result.err[1] = "Failed to deserialize tokens")
          /\ (ThisCall.result.ok =>
                /\ ThisCall.backend_ok /\ keyring # None
                /\ IsCredential(Unwrap(keyring))
                /\ to_json(Unwrap(ThisCall.result.val)) = Unwrap(keyring))
      ]_vars

\* load() of the stored object {"invalid": "format"}.
C18_Witness ==
    /\ Len(ss_log) >= 1
    /\ PrevCall(0).call = "load_tokens"
    /\ keyring = Some([invalid |-> JStr("format")])
    /\ PrevCall(0).result =
         Err(<<"Failed to deserialize tokens", "missing field", "access_token">>)

\* The legacy file parses as a credential.
LegacyCredential(file) == file # None /\ from_json(Unwrap(file)).ok

\* C19: migrate_from_file on an existing legacy file that parses as a
\* credential, unless it reports that the read, the keyring write or the file
\* deletion failed (then the file is still there), returns true, leaves the
\* store holding exactly the parsed credential and the file deleted; the store
\* is written while the file still exists, and only then is the file deleted.
C19_MigrateValidFile ==
    [][(StoreCalled("migrate_from_file") /\ LegacyCredential(token_file)) =>
          LET parsed == Unwrap(from_json(Unwrap(token_file)).val)
          IN IF ThisCall.result.ok
             THEN /\ ThisCall.result = Ok(TRUE)
                  /\ keyring' = Some(to_json(parsed))
                  /\ SecureStorage_load_tokens(keyring', TRUE) = Ok(parsed)
                  /\ token_file' = None
                  /\ ThisCall.effects = <<Snapshot(Some(to_json(parsed)), token_file),
                                          Snapshot(Some(to_json(parsed)), None)>>
             ELSE /\ ThisCall.result.err[1] \in
                       {"Failed to read token file", "Failed to save tokens to keyring",
                        "Failed to delete old token file"}
                  /\ token_file' = token_file
      ]_vars

\* A migration of a legacy credential without refresh token into a keyring
\* that held something else.
C19_Witness ==
    /\ Len(ss_log) >= 2
    /\ SavedOk(PrevCall(1), AuthTokens("A0", Some("R1"), Some(3600)))
    /\ PrevCall(0).call = "migrate_from_file"
    /\ PrevCall(0).arg = Some(to_json(AuthTokens("A0", None, None)))
    /\ PrevCall(0).result = Ok(TRUE)
    /\ keyring = Some(to_json(AuthTokens("A0", None, None)))
    /\ token_file = None

\* C20: migrate_from_file on an existing legacy file that does not parse as
\* a credential returns an error and leaves the file, its content and the
\* store as they were.
C20_MigrateMalformedFile ==
    [][(/\ StoreCalled("migrate_from_file")
        /\ token_file # None /\ ~LegacyCredential(token_file)) =>
          /\ ~ThisCall.result.ok
          /\ ThisCall.effects = <<>>
          /\ token_file' = token_file
          /\ keyring' = keyring
      ]_vars

C20_Witness ==
    /\ Len(ss_log) >= 1
    /\ PrevCall(0).call = "migrate_from_file"
    /\ PrevCall(0).arg = Some([invalid |-> JStr("format")])
    /\ PrevCall(0).result =
         Err(<<"Failed to parse token file", "missing field", "access_token">>)
    /\ token_file = Some([invalid |-> JStr("format")])


\* C21: migrate_from_file on a path that does not exist returns Ok(false) and
\* writes nothing: the keyring entry is the same before and after the call,
\* whatever it held and whether or not the keyring would answer.
C21_MigrateMissingFile ==
    [][(StoreCalled("migrate_from_file") /\ token_file = None) =>
          /\ ThisCall.result = Ok(FALSE)
          /\ ThisCall.effects = <<>>
          /\ keyring' = keyring
          /\ token_file' = None
      ]_vars

\* migrate_from_file found no file while the keyring held a credential.
C21_Witness ==
    /\ Len(ss_log) >= 1
    /\ PrevCall(0).call = "migrate_from_file"
    /\ PrevCall(0).arg = None
    /\ PrevCall(0).result = Ok(FALSE)
    /\ keyring = Some(to_json(AuthTokens("A0", Some("R1"), Some(3600))))
    /\ token_file = None


\* migrate_from_file wrote the content of the legacy file into the keyring.
WroteStore(e) == e.call = "migrate_from_file" /\ e.effects # <<>>

\* C22: the content of a legacy file is written into the store at most once,
\* also when the file deletion fails: a migrate call that follows one which
\* wrote the same file's content writes nothing; and once the file is deleted
\* a migrate call returns false and leaves the store as it is.
C22_MigrationOneShot ==
    [][/\ (/\ Len(ss_log) >= 1 /\ WroteStore(PrevCall(0))
           /\ StoreCalled("migrate_from_file")
           /\ ThisCall.arg = PrevCall(0).arg) =>
             ~WroteStore(ThisCall)
       /\ (StoreCalled("migrate_from_file") /\ token_file = None) =>
             /\ ThisCall.result = Ok(FALSE)
             /\ keyring' = keyring
      ]_vars


\* C33: credential invariant: whenever a credential is present in memory or in
\* the credential store, whether it came from a code exchange, a refresh, the
\* load at startup or the migration of the legacy file, its access_token is a
\* non-empty string.
C33_AccessTokenNeverEmpty ==
    /\ auth_tokens # None => Unwrap(auth_tokens).access_token # ""
    /\ (keyring # None /\ from_json(Unwrap(keyring)).ok)
        => Unwrap(from_json(Unwrap(keyring)).val).access_token # ""

\* ------------------------------------------------------------------------
\* SpecParse: calls of parse_callback_url
\* ------------------------------------------------------------------------
\* Largest number of query pairs of a callback URL.
MaxPairs == 2

\* Query keys (the three the function looks at, and one it ignores) and
\* decoded values.
QueryKeys == {"code", "state", "error", "scope"}
QueryValues == {"ABC", "XYZ", "access_denied", ""}

RECURSIVE SeqsUpTo(_, _)
SeqsUpTo(S, n) ==
    IF n = 0 THEN {<<>>}
    ELSE LET shorter == SeqsUpTo(S, n - 1)
         IN shorter \cup {Append(q, x) : q \in shorter, x \in S}

\* The strings handed to parse_callback_url: URLs with up to MaxPairs query
\* pairs, and strings with the same queries that Url::parse rejects (for
\* instance without a scheme).
CallbackUrls ==
    {Url(valid, query) : valid \in BOOLEAN,
                         query \in SeqsUpTo(QueryKeys \X QueryValues, MaxPairs)}

InitParse ==
    /\ limits = EmptyMap
    /\ rl_mutex = None
    /\ now = 0
    /\ pc = [t \in Tasks |-> "idle"]
    /\ op = [t \in Tasks |-> ""]
    /\ ret = [t \in Tasks |-> NoResult]
    /\ rl_now = [t \in Tasks |-> 0]
    /\ admitted = [o \in OpNames |-> <<>>]
    /\ rejected = [o \in OpNames |-> 0]
    /\ auth_tokens = None
    /\ issued = 0
    /\ tokens = [t \in Tasks |-> None]
    /\ new_tokens = [t \in Tasks |-> None]
    /\ cred = [t \in Tasks |-> NoResult]
    /\ trace = [t \in Tasks |-> <<>>]
    /\ keyring = None
    /\ token_file = None
    /\ ss_log = <<>>
    /\ gmail_auth = None
    /\ auth_tokens_mutex = None
    /\ gmail_auth_mutex = None

\* parse_callback_url(url) is called; the history keeps this call only.
call_parse_callback_url ==
    \E url \in CallbackUrls :
        /\ ss_log' = <<Call("parse_callback_url", url, TRUE, parse_callback_url(url), <<>>)>>
        /\ UNCHANGED <<rl_vars, task_vars, auth_tokens, keyring, issued, token_file, app_vars>>

NextParse == call_parse_callback_url

SpecParse == InitParse /\ [][NextParse]_vars

\* The query of url has a parameter named key, with value v.
HasParam(url, key) == \E i \in 1..Len(url.query) : url.query[i][1] = key
HasParamValue(url, key, v) == \E i \in 1..Len(url.query) : url.query[i] = <<key, v>>

\* The calls of parse_callback_url in the history.
ParseCalls == {i \in 1..Len(ss_log) : ss_log[i].call = "parse_callback_url"}

\* C26: for every URL that parses and has an error query parameter,
\* parse_callback_url fails with "OAuth error: " followed by the value of an
\* error parameter of the URL, whether or not a code parameter is present;
\* no code is returned.
C26_ErrorParameterFirst ==
    \A i \in ParseCalls :
        LET url == ss_log[i].arg
            r == ss_log[i].result
        IN (url.valid /\ HasParam(url, "error")) =>
              /\ ~r.ok
              /\ r.val = <<>>
              /\ Len(r.err) = 2
              /\ r.err[1] = "OAuth error"
              /\ HasParamValue(url, "error", r.err[2])

\* A callback with code=ABC and error=access_denied.
C26_Witness ==
    \E i \in ParseCalls :
        /\ ss_log[i].arg = Url(TRUE, <<<<"code", "ABC">>, <<"error", "access_denied">>>>)
        /\ ss_log[i].result = Err(<<"OAuth error", "access_denied">>)

\* C27: for every URL that parses and has no error parameter: with a code
\* parameter the result is Ok((code, state)), code being the value of a code
\* parameter and state Some(value of a state parameter) when there is one and
\* None otherwise; without a code parameter the result is the failure "No
\* authorization code found", with or without a state parameter.
C27_CodeAndState ==
    \A i \in ParseCalls :
        LET url == ss_log[i].arg
            r == ss_log[i].result
        IN (url.valid /\ ~HasParam(url, "error")) =>
              IF HasParam(url, "code")
              THEN /\ r.ok
                   /\ HasParamValue(url, "code", Unwrap(r.val)[1])
                   /\ IF HasParam(url, "state")
                      THEN /\ IsSome(Unwrap(r.val)[2])
                           /\ HasParamValue(url, "state", Unwrap(Unwrap(r.val)[2]))
                      ELSE Unwrap(r.val)[2] = None
              ELSE r = Err(<<"No authorization code found">>)

\* https://host/callback?code=ABC&state=XYZ
C27_Witness ==
    \E i \in ParseCalls :
        /\ ss_log[i].arg = Url(TRUE, <<<<"code", "ABC">>, <<"state", "XYZ">>>>)
        /\ ss_log[i].result = Ok(<<"ABC", Some("XYZ")>>)


\* ------------------------------------------------------------------------
\* SpecLife: one process that logs in, refreshes, logs out and restarts, one
\* command at a time
\* ------------------------------------------------------------------------
\* Access tokens the provider issues in a run.
MaxIssued == 2

\* GmailAuth as start_gmail_auth stores it: get_auth_url has set csrf_token.
GmailAuth(csrf_token) == [csrf_token |-> csrf_token]

\* CsrfToken::new_random
CsrfTokens == {"S1", "S2"}

\* A token response of the provider to a code exchange.
ExchangeResponses ==
    {[access_token |-> IssuedToken(issued + 1), refresh_token |-> r, expires_in |-> e] :
        r \in {None, Some("R1")}, e \in {Some(3600)}}

\* GmailAuth::exchange_code on a successful token response.
exchange_code(response) ==
    AuthTokens(response.access_token, response.refresh_token, response.expires_in)

\* load_tokens of main.rs: the credential the process starts with, and the
\* keyring entry and the legacy file afterwards. The keyring answers the
\* first load, the write of the migration and the second load as load_ok,
\* save_ok and reload_ok say.
load_tokens(entry, file, load_ok, save_ok, read_ok, remove_ok, reload_ok) ==
    LET first == SecureStorage_load_tokens(entry, load_ok)
    IN IF first.ok
       THEN [tokens |-> first.val, entry |-> entry, file |-> file]
       ELSE IF file # None
       THEN LET migrated == SecureStorage_migrate_from_file(
                                entry, file, save_ok, read_ok, remove_ok)
                again == SecureStorage_load_tokens(migrated.entry, reload_ok)
            IN [tokens |-> IF migrated.result.ok /\ migrated.result.val = <<TRUE>>
                              /\ again.ok
                           THEN again.val ELSE None,
                entry |-> migrated.entry, file |-> migrated.file]
       ELSE [tokens |-> None, entry |-> entry, file |-> file]

\* auth_tokens: Mutex::new(saved_tokens) (main.rs line 538)
SavedTokensDiscarded(saved_tokens) == None
SavedTokens(saved_tokens) == saved_tokens

\* logout_gmail lines 293-296: the legacy file is removed if it exists.
LegacyFileLeft(file, remove_ok) == [file |-> file, result |-> Ok(Unit)]
RemoveLegacyFile(file, remove_ok) ==
    IF file = None THEN [file |-> None, result |-> Ok(Unit)]
    ELSE IF remove_ok THEN [file |-> None, result |-> Ok(Unit)]
    ELSE [file |-> file, result |-> Err(<<"remove_file failed">>)]

\* The callback URLs the frontend hands to complete_gmail_auth.
LifeUrls ==
    {Url(TRUE, <<<<"code", "ABC">>, <<"state", "S1">>>>),
     Url(TRUE, <<<<"code", "ABC">>>>),
     Url(TRUE, <<<<"error", "access_denied">>>>)}

\* What the disk may hold when the process is first started.
InitDisk ==
    {[entry |-> e, file |-> f] :
        e \in {None} \cup {Some(to_json(c)) : c \in InitTokens},
        f \in {None, Some(to_json(AuthTokens("L0", Some("R0"), None))),
               Some([invalid |-> JStr("format")])}}

\* The state main() builds at the first start.
InitLife ==
    /\ limits = EmptyMap
    /\ rl_mutex = None
    /\ now = 0
    /\ pc = [t \in Tasks |-> "idle"]
    /\ op = [t \in Tasks |-> ""]
    /\ ret = [t \in Tasks |-> NoResult]
    /\ rl_now = [t \in Tasks |-> 0]
    /\ admitted = [o \in OpNames |-> <<>>]
    /\ rejected = [o \in OpNames |-> 0]
    /\ issued = 0
    /\ tokens = [t \in Tasks |-> None]
    /\ new_tokens = [t \in Tasks |-> None]
    /\ cred = [t \in Tasks |-> NoResult]
    /\ trace = [t \in Tasks |-> <<>>]
    /\ ss_log = <<>>
    /\ gmail_auth = None
    /\ auth_tokens_mutex = None
    /\ gmail_auth_mutex = None
    /\ \E disk \in InitDisk, remove_ok \in BOOLEAN :
          LET loaded == load_tokens(disk.entry, disk.file, TRUE, TRUE, TRUE, remove_ok, TRUE)
          IN /\ auth_tokens = SavedTokens(loaded.tokens)
             /\ keyring = loaded.entry
             /\ token_file = loaded.file

\* The outcomes of a call to the environment (keyring, file system, provider):
\* it succeeds or fails if the command makes it, and is not made otherwise.
Outcomes(made) == IF made THEN BOOLEAN ELSE {TRUE}

\* What a command of SpecLife leaves alone.
LifeFrame ==
    UNCHANGED <<rl_vars, task_vars, auth_tokens_mutex, gmail_auth_mutex>>

\* The process is stopped between two commands and started again: main().
main ==
    \E load_ok \in BOOLEAN :
      LET migrating == ~SecureStorage_load_tokens(keyring, load_ok).ok /\ token_file # None
      IN \E read_ok \in Outcomes(migrating) :
         \E save_ok \in Outcomes(migrating /\ read_ok /\ LegacyCredential(token_file)) :
         \E remove_ok \in Outcomes(migrating /\ read_ok /\ LegacyCredential(token_file)
                                  /\ save_ok) :
         \E reload_ok \in Outcomes(migrating /\ read_ok /\ LegacyCredential(token_file)
                                  /\ save_ok /\ remove_ok) :
        LET loaded == load_tokens(keyring, token_file, load_ok, save_ok, read_ok,
                                  remove_ok, reload_ok)
        IN /\ auth_tokens' = SavedTokens(loaded.tokens)
           /\ gmail_auth' = None
           /\ keyring' = loaded.entry
           /\ token_file' = loaded.file
           /\ ss_log' = Record(Call("main", None, load_ok, Ok(loaded.tokens), <<>>))
           /\ UNCHANGED issued
           /\ LifeFrame

\* start_gmail_auth
start_gmail_auth ==
    \E config_ok \in GmailAuth_new_outcomes, csrf \in CsrfTokens :
        /\ IF config_ok
           THEN /\ gmail_auth' = Some(GmailAuth(Some(csrf)))
                /\ ss_log' = Record(Call("start_gmail_auth", None, TRUE,
                                         Ok(<<"auth_url", csrf>>), <<>>))
           ELSE /\ gmail_auth' = gmail_auth
                /\ ss_log' = Record(Call("start_gmail_auth", None, TRUE,
                                         Err(<<"client configuration">>), <<>>))
        /\ UNCHANGED <<auth_tokens, keyring, issued, token_file>>
        /\ LifeFrame

\* complete_gmail_auth line 262: let (code, _state) = parse_callback_url(..)?;
\* the state of the callback is bound to _state and never read, whatever the
\* csrf_token of the session is.
CallbackStateVerified(session, state) == state = Unwrap(session).csrf_token
CallbackStateAccepted(session, state) == TRUE

\* complete_gmail_auth(callback_url) as a function of the state it runs in
\* (the session, the in-memory credential, the keyring entry, the provider)
\* and of what the environment answers: its result, the exchange request it
\* made and the credential the keyring accepted, if any, and the state it
\* leaves.
complete_gmail_auth_returns(callback_url, session, memory, entry, n_issued, exchange_ok, backend_ok, response) ==
    LET parsed == parse_callback_url(callback_url)
        Returns(result, effects, m, e, n) ==
            [result |-> result, effects |-> effects, auth_tokens |-> m,
             keyring |-> e, issued |-> n]
    IN IF ~parsed.ok
       THEN Returns(parsed, <<>>, memory, entry, n_issued)
       ELSE IF session = None
       THEN Returns(Err(<<"No auth session found">>), <<>>, memory, entry, n_issued)
       ELSE IF ~CallbackStateAccepted(session, Unwrap(parsed.val)[2])
       THEN Returns(Err(<<"state mismatch">>), <<>>, memory, entry, n_issued)
       ELSE LET code == Unwrap(parsed.val)[1]
                exchange == Ev("exchange_code", code)
            IN IF ~exchange_ok
               THEN Returns(Err(<<"exchange failed">>), <<exchange>>, memory, entry,
                            n_issued)
               ELSE LET new == exchange_code(response)
                        saved == SecureStorage_save_tokens(entry, new, backend_ok)
                    IN IF saved.result.ok
                       THEN Returns(Ok("Authentication successful!"),
                                    <<exchange, Ev("save_tokens", new)>>,
                                    Some(new), saved.entry, n_issued + 1)
                       ELSE Returns(Err(<<"Failed to save tokens">> \o saved.result.err),
                                    <<exchange>>, Some(new), saved.entry, n_issued + 1)

\* complete_gmail_auth(callback_url). The effects are the exchange request it
\* made, if any, and the credential the keyring accepted, if any.
complete_gmail_auth ==
    \E callback_url \in LifeUrls :
      \E exchange_ok \in Outcomes(parse_callback_url(callback_url).ok /\ gmail_auth # None) :
      \E backend_ok \in Outcomes(parse_callback_url(callback_url).ok /\ gmail_auth # None
                                /\ exchange_ok) :
      \E response \in {r \in ExchangeResponses :
                            (parse_callback_url(callback_url).ok /\ gmail_auth # None
                             /\ exchange_ok) \/ r.refresh_token = None} :
        LET returned == complete_gmail_auth_returns(
                            callback_url, gmail_auth, auth_tokens, keyring, issued,
                            exchange_ok, backend_ok, response)
        IN /\ returned.issued <= MaxIssued
           /\ auth_tokens' = returned.auth_tokens
           /\ keyring' = returned.keyring
           /\ issued' = returned.issued
           /\ ss_log' = Record(Call("complete_gmail_auth", callback_url, backend_ok,
                                    returned.result, returned.effects))
           /\ UNCHANGED <<gmail_auth, token_file>>
           /\ LifeFrame

\* logout_gmail
logout_gmail ==
    \E backend_ok \in BOOLEAN :
      \E remove_ok \in Outcomes(backend_ok /\ token_file # None) :
        LET deleted == SecureStorage_delete_tokens(keyring, backend_ok)
            removed == RemoveLegacyFile(token_file, remove_ok)
        IN /\ auth_tokens' = None
           /\ keyring' = deleted.entry
           /\ IF ~deleted.result.ok
              THEN /\ token_file' = token_file
                   /\ ss_log' = Record(Call("logout_gmail", None, backend_ok,
                                            deleted.result, <<>>))
              ELSE /\ token_file' = removed.file
                   /\ ss_log' = Record(Call("logout_gmail", None, backend_ok,
                                            IF removed.result.ok
                                            THEN Ok("Logged out successfully")
                                            ELSE removed.result, <<>>))
           /\ UNCHANGED <<gmail_auth, issued>>
           /\ LifeFrame

\* get_auth_status
get_auth_status ==
    /\ ss_log' = Record(Call("get_auth_status", None, TRUE, Ok(auth_tokens # None), <<>>))
    /\ UNCHANGED <<auth_tokens, keyring, issued, token_file, gmail_auth>>
    /\ LifeFrame

\* refresh_tokens_if_needed, run by a privileged command while no other
\* command runs. The effects are the credential the keyring accepted, if any.
refresh_tokens_if_needed ==
    \E probe_ok \in Outcomes(auth_tokens # None) :
      LET refreshing == /\ auth_tokens # None /\ ~probe_ok
                        /\ RefreshTokenOf(Unwrap(auth_tokens)) # None
      IN \E config_ok \in Outcomes(refreshing) :
         \E refresh_ok \in Outcomes(refreshing /\ config_ok) :
         \E backend_ok \in Outcomes(refreshing /\ config_ok /\ refresh_ok) :
        LET read == ok_or_not_authenticated(auth_tokens)
            Returns(result, effects) ==
                ss_log' = Record(Call("refresh_tokens_if_needed", None, backend_ok,
                                      result, effects))
        IN /\ IF ~read.ok
              THEN /\ Returns(read, <<>>)
                   /\ UNCHANGED <<auth_tokens, keyring, issued>>
              ELSE LET current == Unwrap(read.val)
                   IN IF ProbeSucceeded(probe_ok)
                      THEN /\ Returns(Ok(current), <<>>)
                           /\ UNCHANGED <<auth_tokens, keyring, issued>>
                      ELSE IF RefreshTokenOf(current) = None
                      THEN /\ Returns(Err(<<"No refresh token available">>), <<>>)
                           /\ UNCHANGED <<auth_tokens, keyring, issued>>
                      ELSE IF ~config_ok
                      THEN /\ Returns(Err(<<"client configuration">>), <<>>)
                           /\ UNCHANGED <<auth_tokens, keyring, issued>>
                      ELSE IF ~refresh_ok
                      THEN /\ Returns(Err(<<"refresh failed">>), <<>>)
                           /\ UNCHANGED <<auth_tokens, keyring, issued>>
                      ELSE /\ issued < MaxIssued
                           /\ \E response \in RefreshResponses :
                                LET new == refresh_access_token(
                                               response, Unwrap(RefreshTokenOf(current)))
                                    saved == SecureStorage_save_tokens(keyring, new, backend_ok)
                                IN /\ auth_tokens' = StoreAuthTokens(Some(new))
                                   /\ keyring' = saved.entry
                                   /\ issued' = issued + 1
                                   /\ IF saved.result.ok
                                      THEN Returns(Ok(new), <<Ev("save_tokens", new)>>)
                                      ELSE Returns(Err(<<"Failed to save tokens">>
                                                        \o saved.result.err), <<>>)
           /\ UNCHANGED <<gmail_auth, token_file>>
           /\ LifeFrame

NextLife ==
    \/ main
    \/ start_gmail_auth
    \/ complete_gmail_auth
    \/ logout_gmail
    \/ get_auth_status
    \/ refresh_tokens_if_needed

SpecLife == InitLife /\ [][NextLife]_vars


\* ------------------------------------------------------------------------
\* Properties of the credential lifecycle, under SpecLife
\* ------------------------------------------------------------------------

\* Call e made effect name (an exchange request, an accepted keyring write).
Effected(e, name) == \E i \in 1..Len(e.effects) : e.effects[i][1] = name

\* Call e is a login or a refresh that succeeded and persisted credential c.
Persisted(e, c) ==
    /\ e.call \in {"complete_gmail_auth", "refresh_tokens_if_needed"}
    /\ e.result.ok
    /\ \E i \in 1..Len(e.effects) :
          e.effects[i][1] = "save_tokens" /\ e.effects[i][2] = c

\* Call e is neither a logout nor a process start, and persisted nothing.
NeitherLogoutNorWrite(e) ==
    /\ e.call \in {"get_auth_status", "start_gmail_auth", "complete_gmail_auth",
                   "refresh_tokens_if_needed"}
    /\ ~Effected(e, "save_tokens")

\* The credentials a login or a refresh can produce.
LifeCredentials ==
    {AuthTokens(a, r, e) : a \in {"A1", "A2", "A3"}, r \in {None, Some("R1"), Some("R2")},
                           e \in {Some(3600)}}

\* C23: when logout_gmail returns success (run alone), the in-memory
\* credential is absent, the keyring holds no entry and the legacy token file
\* does not exist; get_auth_status called next reports false.
C23_LogoutDestroysCredential ==
    [][/\ (StoreCalled("logout_gmail") /\ ThisCall.result.ok) =>
             /\ auth_tokens' = None
             /\ keyring' = None
             /\ ~SecureStorage_has_tokens(keyring', TRUE)
             /\ token_file' = None
       /\ (/\ Len(ss_log) >= 1 /\ PrevCall(0).call = "logout_gmail"
           /\ PrevCall(0).result.ok /\ StoreCalled("get_auth_status")) =>
             ThisCall.result = Ok(FALSE)
      ]_vars

\* A logout after a login, with a legacy file still on disk, then
\* get_auth_status.
C23_Witness ==
    /\ Len(ss_log) >= 2
    /\ PrevCall(1).call = "logout_gmail"
    /\ PrevCall(1).result = Ok("Logged out successfully")
    /\ PrevCall(0).call = "get_auth_status"
    /\ PrevCall(0).result = Ok(FALSE)
    /\ issued >= 1
    /\ auth_tokens = None /\ keyring = None /\ token_file = None

\* C24: when a login or a refresh succeeded and persisted credential c, and
\* the process is started next, or after one more command that is not a
\* logout and persists nothing, with the keyring answering, the in-memory
\* credential is initialised to c; when the store is empty and no legacy file
\* exists the process starts with no in-memory credential.
C24_PersistsAcrossRestarts ==
    [][StoreCalled("main") =>
          /\ \A c \in LifeCredentials :
               /\ (/\ Len(ss_log) >= 1 /\ Persisted(PrevCall(0), c)
                   /\ ThisCall.backend_ok) =>
                     auth_tokens' = Some(c)
               /\ (/\ Len(ss_log) >= 2 /\ Persisted(PrevCall(1), c)
                   /\ NeitherLogoutNorWrite(PrevCall(0))
                   /\ ThisCall.backend_ok) =>
                     auth_tokens' = Some(c)
          /\ (keyring = None /\ token_file = None) =>
               /\ auth_tokens' = None
               /\ keyring' = None
          /\ gmail_auth' = None
      ]_vars

\* A login persisted a credential with a refresh token and the process was
\* started again: it holds that credential and no authorization session.
C24_Witness ==
    /\ Len(ss_log) >= 2
    /\ PrevCall(1).call = "complete_gmail_auth"
    /\ Persisted(PrevCall(1), AuthTokens("A1", Some("R1"), Some(3600)))
    /\ PrevCall(0).call = "main"
    /\ PrevCall(0).backend_ok
    /\ auth_tokens = Some(AuthTokens("A1", Some("R1"), Some(3600)))
    /\ gmail_auth = None

\* C25: after complete_gmail_auth has used the session for a code exchange,
\* a complete_gmail_auth that follows without a start_gmail_auth in between
\* requests no exchange and fails with "No auth session found".
C25_SessionConsumedOnce ==
    [][(/\ Len(ss_log) >= 1
        /\ PrevCall(0).call = "complete_gmail_auth"
        /\ Effected(PrevCall(0), "exchange_code")
        /\ StoreCalled("complete_gmail_auth")
        /\ parse_callback_url(ThisCall.arg).ok) =>
          /\ ~Effected(ThisCall, "exchange_code")
          /\ ThisCall.result = Err(<<"No auth session found">>)
      ]_vars



\* The query of a callback URL without its state parameter.
WithoutState(url) == SelectSeq(url.query, LAMBDA pair : pair[1] # "state")

\* C37: complete_gmail_auth does not verify the anti-forgery token: in every
\* state, for two callback URLs that carry the same code and differ only in
\* their state parameter (the csrf_token of the session, another value, or
\* none), and for the same answers of the provider and the keyring,
\* complete_gmail_auth makes the same exchange request and ends with the same
\* result, the same in-memory credential and the same stored credential.
C37_StateNotVerified ==
    \A url1, url2 \in LifeUrls :
        (/\ url1.valid = url2.valid
         /\ WithoutState(url1) = WithoutState(url2)
         /\ HasParam(url1, "code"))
        => \A exchange_ok, backend_ok \in BOOLEAN : \A response \in ExchangeResponses :
              complete_gmail_auth_returns(url1, gmail_auth, auth_tokens, keyring,
                                          issued, exchange_ok, backend_ok, response)
              = complete_gmail_auth_returns(url2, gmail_auth, auth_tokens, keyring,
                                            issued, exchange_ok, backend_ok, response)

\* A login completed with a callback whose state is S1 while the csrf_token of
\* the session is S2: the code was exchanged and the credential stored.
C37_Witness ==
    /\ gmail_auth = Some(GmailAuth(Some("S2")))
    /\ ss_log # <<>>
    /\ Last(ss_log).call = "complete_gmail_auth"
    /\ Last(ss_log).arg = Url(TRUE, <<<<"code", "ABC">>, <<"state", "S1">>>>)
    /\ Last(ss_log).result = Ok("Authentication successful!")
    /\ Effected(Last(ss_log), "exchange_code")
    /\ auth_tokens # None
    /\ keyring = Some(to_json(Unwrap(auth_tokens)))

\* C39: a complete_gmail_auth that returns an error leaves the authentication
\* state as it was: whatever made it fail (an error in the callback, no
\* session, a failed code exchange, a failed store write), the in-memory
\* credential after the call is the one before it, and get_auth_status
\* reports the same value before and after.
C39_FailedLoginLeavesState ==
    [][(/\ <<ss_log, auth_tokens>>' # <<ss_log, auth_tokens>>
        /\ Last(ss_log').call = "complete_gmail_auth"
        /\ ~Last(ss_log').result.ok)
       => /\ auth_tokens' = auth_tokens
          /\ (auth_tokens' # None) = (auth_tokens # None)]_vars

\* ------------------------------------------------------------------------
\* SpecLock: the commands as sequences of lock, unlock, await and synchronous
\* steps, run by concurrent tasks
\* ------------------------------------------------------------------------
\* The three Mutexes: RateLimiter.limits, AppState.auth_tokens and
\* AppState.gmail_auth.
Mutexes == {"limits", "auth_tokens", "gmail_auth"}

\* The steps of a command. After a step control goes to the next one or, for
\* k in exits, k steps ahead; exit 0 is a return from the command (`?`, an
\* early `return`).
Lock(m) == [kind |-> "lock", on |-> m, exits |-> {}]
Unlock(m, exits) == [kind |-> "unlock", on |-> m, exits |-> exits]
Await(call, exits) == [kind |-> "await", on |-> call, exits |-> exits]
Sync(call, exits) == [kind |-> "sync", on |-> call, exits |-> exits]

\* check_rate_limit(..)? : the guard `limits` lives to the end of the function
\* (rate_limiter.rs lines 27-55); a rejection returns from the command.
check_rate_limit_steps == <<Lock("limits"), Unlock("limits", {0})>>

\* { let tokens_guard = state.auth_tokens.lock().unwrap(); tokens_guard.clone() }
\* (main.rs lines 223-226 and 344-347): the guard is dropped at the end of the
\* block; without credential the command returns (lines 230, 349).
ReadAuthTokensGuardKept == <<Lock("auth_tokens"), Sync("clone", {0})>>
ReadAuthTokensBlock == <<Lock("auth_tokens"), Unlock("auth_tokens", {0})>>

\* *state.auth_tokens.lock().unwrap() = ..; (lines 277, 287, 367): the
\* temporary guard is dropped at the end of the statement.
WriteAuthTokensStatement == <<Lock("auth_tokens"), Unlock("auth_tokens", {})>>

\* refresh_tokens_if_needed (lines 343-376) followed by the upstream call of
\* the command: the probe is awaited; if it succeeds control goes on to the
\* upstream call, if it fails and there is no refresh token the command
\* returns, else the refresh is awaited, memory is written and save_tokens
\* called.
refresh_tokens_if_needed_steps ==
    ReadAuthTokensBlock
    \o <<Await("get_profile", {0, 6}), Sync("GmailAuth::new", {0}),
         Await("refresh_access_token", {0})>>
    \o WriteAuthTokensStatement
    \o <<Sync("save_tokens", {0})>>

\* The commands, step by step.
Steps_of(cmd) ==
    CASE cmd \in {"get_emails", "send_reply"} ->
            check_rate_limit_steps \o refresh_tokens_if_needed_steps
            \o <<Await("upstream", {})>>
      [] cmd = "get_email_content" ->
            check_rate_limit_steps \o ReadAuthTokensBlock \o <<Await("get_message", {})>>
      [] cmd = "mark_email_as_read" ->
            refresh_tokens_if_needed_steps \o <<Await("upstream", {})>>
      [] cmd = "start_gmail_auth" ->
            <<Sync("GmailAuth::new", {0}), Lock("gmail_auth"), Unlock("gmail_auth", {})>>
      [] cmd = "complete_gmail_auth" ->
            <<Sync("parse_callback_url", {0}), Lock("gmail_auth"),
              Unlock("gmail_auth", {0}), Await("exchange_code", {0})>>
            \o WriteAuthTokensStatement
            \o <<Sync("save_tokens", {0})>>
      [] cmd = "logout_gmail" ->
            WriteAuthTokensStatement
            \o <<Sync("delete_tokens", {0}), Sync("remove_file", {0})>>
      [] cmd = "get_auth_status" ->
            <<Lock("auth_tokens"), Sync("is_some", {})>>
      [] OTHER -> <<>>

LockCommands ==
    {"get_emails", "send_reply", "get_email_content", "mark_email_as_read",
     "start_gmail_auth", "complete_gmail_auth", "logout_gmail", "get_auth_status"}

\* In SpecLock pc[t] is 0 before task t is invoked, i while it is at step i of
\* its command (waiting for the Mutex of a lock step, suspended on the call of
\* an await step), and one more than the number of steps once it has returned.
Returned(cmd) == Len(Steps_of(cmd)) + 1
Running(t) == pc[t] >= 1 /\ pc[t] < Returned(op[t])
Step(t) == Steps_of(op[t])[pc[t]]
At(t, kind) == Running(t) /\ Step(t).kind = kind

\* Where control goes after the step task t is at.
Targets(t) ==
    {pc[t] + 1} \cup {pc[t] + k : k \in Step(t).exits \ {0}}
    \cup (IF 0 \in Step(t).exits THEN {Returned(op[t])} ELSE {})

Holder(m) ==
    CASE m = "limits" -> rl_mutex
      [] m = "auth_tokens" -> auth_tokens_mutex
      [] m = "gmail_auth" -> gmail_auth_mutex

\* A MutexGuard still alive when the command returns is dropped then.
GuardsLeaked(holder, t, to) == holder
GuardsDropped(holder, t, to) ==
    IF to = Returned(op[t]) /\ holder = Some(t) THEN None ELSE holder

\* Task t goes to step `to`; Mutex m, if any, gets holder h.
GoTo(t, to, m, h) ==
    /\ pc' = [pc EXCEPT ![t] = to]
    /\ rl_mutex' = GuardsDropped(IF m = "limits" THEN h ELSE rl_mutex, t, to)
    /\ auth_tokens_mutex' =
          GuardsDropped(IF m = "auth_tokens" THEN h ELSE auth_tokens_mutex, t, to)
    /\ gmail_auth_mutex' =
          GuardsDropped(IF m = "gmail_auth" THEN h ELSE gmail_auth_mutex, t, to)

LockFrame ==
    UNCHANGED <<limits, now, rl_now, admitted, rejected, ret, tokens, new_tokens,
                cred, trace, auth_tokens, keyring, issued, token_file, ss_log,
                gmail_auth>>

InitLock ==
    /\ limits = EmptyMap
    /\ rl_mutex = None
    /\ now = 0
    /\ pc = [t \in Tasks |-> 0]
    /\ op = [t \in Tasks |-> ""]
    /\ ret = [t \in Tasks |-> NoResult]
    /\ rl_now = [t \in Tasks |-> 0]
    /\ admitted = [o \in OpNames |-> <<>>]
    /\ rejected = [o \in OpNames |-> 0]
    /\ auth_tokens = None
    /\ keyring = None
    /\ issued = 0
    /\ token_file = None
    /\ ss_log = <<>>
    /\ gmail_auth = None
    /\ auth_tokens_mutex = None
    /\ gmail_auth_mutex = None
    /\ tokens = [t \in Tasks |-> None]
    /\ new_tokens = [t \in Tasks |-> None]
    /\ cred = [t \in Tasks |-> NoResult]
    /\ trace = [t \in Tasks |-> <<>>]

\* The frontend invokes a command; it runs as task t.
invoke(t, cmd) ==
    /\ pc[t] = 0
    /\ op' = [op EXCEPT ![t] = cmd]
    /\ pc' = [pc EXCEPT ![t] = 1]
    /\ UNCHANGED <<rl_mutex, auth_tokens_mutex, gmail_auth_mutex>>
    /\ LockFrame

\* mutex.lock().unwrap() returns once the Mutex is free.
lock_acquired(t) ==
    /\ At(t, "lock")
    /\ Holder(Step(t).on) = None
    /\ GoTo(t, pc[t] + 1, Step(t).on, Some(t))
    /\ UNCHANGED op
    /\ LockFrame

\* The guard goes out of scope.
guard_dropped(t) ==
    /\ At(t, "unlock")
    /\ \E to \in Targets(t) : GoTo(t, to, Step(t).on, None)
    /\ UNCHANGED op
    /\ LockFrame

\* The network call task t is suspended on returns.
await_returns(t) ==
    /\ At(t, "await")
    /\ \E to \in Targets(t) : GoTo(t, to, "", None)
    /\ UNCHANGED op
    /\ LockFrame

\* A synchronous call (keyring, file system, parsing) returns.
sync_returns(t) ==
    /\ At(t, "sync")
    /\ \E to \in Targets(t) : GoTo(t, to, "", None)
    /\ UNCHANGED op
    /\ LockFrame

TaskStep(t) ==
    \/ lock_acquired(t)
    \/ guard_dropped(t)
    \/ await_returns(t)
    \/ sync_returns(t)

NextLock ==
    \/ \E t \in Tasks, cmd \in LockCommands : invoke(t, cmd)
    \/ \E t \in Tasks : lock_acquired(t)
    \/ \E t \in Tasks : guard_dropped(t)
    \/ \E t \in Tasks : await_returns(t)
    \/ \E t \in Tasks : sync_returns(t)

SpecLock == InitLock /\ [][NextLock]_vars

\* SpecLock with a fair scheduler and network calls that return: a task that
\* can take a step eventually takes one.
SpecLockFair == SpecLock /\ \A t \in Tasks : WF_vars(TaskStep(t))

\* The Mutexes task t holds.
Held(t) == {m \in Mutexes : Holder(m) = Some(t)}

\* C28: in every reachable state a task suspended on a network call (the
\* validity probe, the code exchange, the refresh, an upstream call) holds
\* none of the three Mutexes.
C28_NoLockAcrossAwait ==
    \A t \in Tasks : At(t, "await") => Held(t) = {}

\* A task is suspended on its refresh request while the other holds the
\* auth_tokens Mutex.
C28_Witness ==
    \E t, u \in Tasks :
        /\ At(t, "await") /\ Step(t).on = "refresh_access_token"
        /\ Held(t) = {}
        /\ At(u, "unlock") /\ Held(u) = {"auth_tokens"}

ResetOps == {"get_emails", "send_reply"}

\* RateLimiter::reset_all: limits.clear()
reset_all(lims) == EmptyMap

\* RateLimiter::reset_operation: limits.remove(operation)
reset_operation_clearing(lims, operation) == EmptyMap
reset_operation(lims, operation) == MapRemove(lims, operation)

InitReset ==
    /\ limits = EmptyMap
    /\ rl_mutex = None
    /\ now = 0
    /\ pc = [t \in Tasks |-> "idle"]
    /\ op = [t \in Tasks |-> ""]
    /\ ret = [t \in Tasks |-> NoResult]
    /\ rl_now = [t \in Tasks |-> 0]
    /\ admitted = [o \in OpNames |-> <<>>]
    /\ rejected = [o \in OpNames |-> 0]
    /\ auth_tokens = None
    /\ keyring = None
    /\ issued = 0
    /\ token_file = None
    /\ ss_log = <<>>
    /\ gmail_auth = None
    /\ auth_tokens_mutex = None
    /\ gmail_auth_mutex = None
    /\ tokens = [t \in Tasks |-> None]
    /\ new_tokens = [t \in Tasks |-> None]
    /\ cred = [t \in Tasks |-> NoResult]
    /\ trace = [t \in Tasks |-> <<>>]

\* What a call on RateLimiter leaves alone.
ResetFrame ==
    UNCHANGED <<rl_mutex, now, rl_now, admitted, task_vars, auth_tokens, keyring,
                issued, token_file, app_vars>>

\* limiter.check_rate_limit(operation): the lock is taken, the check is made
\* and the guard is dropped at the return.
call_check_rate_limit ==
    \E operation \in ResetOps :
        LET checked == check_rate_limit(limits, operation, now)
        IN /\ limits' = checked.limits
           /\ rejected' = IF checked.result.ok THEN rejected
                          ELSE [rejected EXCEPT ![operation] = Saturate(@)]
           /\ ss_log' = Record(Call("check_rate_limit", operation, TRUE,
                                    checked.result, <<>>))
           /\ ResetFrame

\* limiter.reset_operation(operation)
call_reset_operation ==
    \E operation \in ResetOps :
        /\ limits' = reset_operation(limits, operation)
        /\ ss_log' = Record(Call("reset_operation", operation, TRUE, Ok(Unit), <<>>))
        /\ UNCHANGED rejected
        /\ ResetFrame

\* limiter.reset_all()
call_reset_all ==
    /\ limits' = reset_all(limits)
    /\ ss_log' = Record(Call("reset_all", "", TRUE, Ok(Unit), <<>>))
    /\ UNCHANGED rejected
    /\ ResetFrame

NextReset ==
    \/ call_check_rate_limit
    \/ call_reset_operation
    \/ call_reset_all
    \/ Tick

SpecReset == InitReset /\ [][NextReset]_vars


\* ------------------------------------------------------------------------
\* Properties of the rate limiter's resets and rejections, under SpecReset
\* ------------------------------------------------------------------------
\* The step is a call of `name` on RateLimiter with argument `arg`.
LimiterCalled(name, arg) ==
    /\ <<limits, ss_log>>' # <<limits, ss_log>>
    /\ Last(ss_log').call = name
    /\ Last(ss_log').arg = arg

\* The checks of `operation` the limiter would still admit at instant t.
RemainingBudget(lims, operation, t) ==
    IF operation \in DOMAIN lims
    THEN LET limit == lims[operation]
         IN limit.max_requests
            - InWindow(limit.requests, t, limit.window_duration)
    ELSE Policy(operation).max_requests

\* C31: reset_operation restores the full budget of that operation only: every
\* other operation's bucket and remaining budget are unchanged; reset_all
\* restores the full budget of every operation; the check that follows a reset
\* of its operation is admitted.
C31_ResetRestoresBudget ==
    [][/\ \A o \in ResetOps :
            LimiterCalled("reset_operation", o)
            => /\ RemainingBudget(limits', o, now') = Policy(o).max_requests
               /\ \A b \in OpNames \ {o} :
                    /\ (b \in DOMAIN limits') = (b \in DOMAIN limits)
                    /\ b \in DOMAIN limits => limits'[b] = limits[b]
                    /\ RemainingBudget(limits', b, now')
                            = RemainingBudget(limits, b, now)
       /\ LimiterCalled("reset_all", "")
            => \A o \in OpNames :
                    RemainingBudget(limits', o, now') = Policy(o).max_requests
       /\ \A o \in ResetOps :
            (/\ LimiterCalled("check_rate_limit", o)
             /\ ss_log # <<>>
             /\ \/ Last(ss_log).call = "reset_all"
                \/ Last(ss_log).call = "reset_operation" /\ Last(ss_log).arg = o)
            => Last(ss_log').result = Ok(Unit)]_vars

\* test_reset_operation_clears_limit, with send_reply exhausted as well: after
\* get_emails was rejected, reset_operation("get_emails") and a check of
\* get_emails that is admitted, while send_reply's bucket is still full.
C31_Witness ==
    /\ Len(ss_log) = 2
    /\ ss_log[1].call = "reset_operation" /\ ss_log[1].arg = "get_emails"
    /\ ss_log[2].call = "check_rate_limit" /\ ss_log[2].arg = "get_emails"
    /\ ss_log[2].result = Ok(Unit)
    /\ rejected["get_emails"] = 1
    /\ "send_reply" \in DOMAIN limits
    /\ Len(limits["send_reply"].requests) = 10
    /\ limits["get_emails"].requests = <<now>>


\* Number of occurrences of x in the sequence s.
Count(s, x) == Cardinality({i \in 1..Len(s) : s[i] = x})

\* C34: a rejected check records nothing: when check_rate_limit returns the
\* exceeded error, the bucket holds no instant more often than before the call
\* (no new entry), every entry that is gone was older than the window, and
\* the budget that remains at that instant is what it was before the call.
C34_RejectionRecordsNothing ==
    [][\A o \in ResetOps :
        (/\ LimiterCalled("check_rate_limit", o)
         /\ ~Last(ss_log').result.ok)
        => /\ o \in DOMAIN limits /\ o \in DOMAIN limits'
           /\ LET before == limits[o].requests
                  after == limits'[o].requests
              IN /\ Len(after) <= Len(before)
                 /\ \A i \in 1..Len(after) :
                        Count(after, after[i]) <= Count(before, after[i])
                 /\ \A i \in 1..Len(before) :
                        Count(after, before[i]) < Count(before, before[i])
                        => now - before[i] > limits[o].window_duration
           /\ RemainingBudget(limits', o, now) = RemainingBudget(limits, o, now)]_vars

\* Two rejections of get_emails in a row at one instant, the bucket full.
C34_Witness ==
    /\ Len(ss_log) = 2
    /\ \A i \in 1..2 :
        /\ ss_log[i].call = "check_rate_limit" /\ ss_log[i].arg = "get_emails"
        /\ ~ss_log[i].result.ok
    /\ limits["get_emails"].requests = Repeat(now, 10)
    /\ now = 60



\* ------------------------------------------------------------------------
\* SpecLogout: the commands of Spec running as concurrent tasks, and
\* logout_gmail called while they run
\* ------------------------------------------------------------------------
\* A run of SpecLogout calls logout_gmail once.
MayLogout == ss_log = <<>>

NextLogout ==
    \/ Next
    \/ MayLogout /\ logout_gmail

SpecLogout == Init /\ [][NextLogout]_vars

\* C40: logout is final under concurrency: once logout_gmail has returned
\* success, the in-memory credential and the stored credential are absent and
\* stay absent (no complete_gmail_auth runs in SpecLogout), whatever the
\* operations do that were in flight when it ran, suspended in their validity
\* probe or their refresh request.
C40_LogoutIsFinal ==
    (/\ ss_log # <<>>
     /\ Last(ss_log).call = "logout_gmail"
     /\ Last(ss_log).result.ok)
    => /\ auth_tokens = None
       /\ keyring = None

====
